---- MODULE Spec2Model ----
(***************************************************************************)
(* Model of the retry loop of @proventuslabs/retry-strategies:             *)
(*   retry()     packages/retry-strategies/src/retry/retry.ts              *)
(*   waitFor()   packages/retry-strategies/src/utils/wait-for.ts           *)
(*   UptoBackoff packages/retry-strategies/src/utils/upto.ts               *)
(*   ConstantBackoff packages/retry-strategies/src/backoff/constant-backoff.ts *)
(*                                                                         *)
(* One retry sequence runs  retry(fn, {strategy: upto(retries,             *)
(* constant(delay)), stop, signal}).  JavaScript runs every callback to    *)
(* completion, so one action is one macrotask together with the            *)
(* continuations it resumes.                                               *)
(***************************************************************************)
EXTENDS Integers, Sequences, FiniteSets, TLC

\* ---------------------------------------------------------------- bounds
MaxRetries == 2          \* largest `retries` given to upto()
MaxPreUse == 2           \* nextBackoff() calls the caller makes before retry()
MaxCalls == MaxRetries + 1   \* upto(retries, s) allows at most retries+1 invocations

\* ------------------------------------------------------------ JS numbers
\* A delay is a JavaScript number.  Non-negative integers are kept as two
\* limbs <<hi, lo>> = hi * 2^31 + lo, so that values above INT32_MAX exist
\* in the model; NaN is a value of its own.
INT32_MAX == 2147483647

NaN == <<>>

IsNaN(x) == x = NaN

Num(hi, lo) == <<hi, lo>>

\* a > b on JS numbers: every comparison with NaN is false
NumGt(a, b) ==
  /\ ~IsNaN(a)
  /\ ~IsNaN(b)
  /\ \/ a[1] > b[1]
     \/ a[1] = b[1] /\ a[2] > b[2]

\* delays handed to constant(): 0, 1000, 2^31 - 1, 2^31, 3000000000
Delays ==
  { Num(0, 0), Num(0, 1000), Num(0, INT32_MAX), Num(1, 0), Num(1, 852516352) }

\* ------------------------------------------------------- failure values
OpError(i) == [kind |-> "Error", n |-> i]        \* error of the i-th invocation
OpValue(i) == [kind |-> "Value", n |-> i]        \* result of the i-th invocation
RangeErr == [kind |-> "RangeError", n |-> 0]
AbortReason == [kind |-> "AbortReason", n |-> 0] \* signal.reason

\* what one invocation of the operation does: return a value or throw
\* synchronously, or return a promise that later resolves or rejects
FnKinds == {"return", "throw", "resolve", "reject"}

VARIABLES
  opts,         \* [retries, delay, hasStop, hasSignal]: the arguments
  fn,           \* the operation: invocation number -> what it does
  attemptsLeft, \* UptoBackoff.attemptsLeft
  pc,           \* "idle" | "inflight" | "waiting" | "done"
  attempt,      \* retry's local `attempt`
  fnCalls,      \* invocations of the operation so far
  aborted,      \* signal.aborted
  timer,        \* "none" | "pending" | "fired" | "cleared": the last setTimeout
  listeners,    \* abort listeners registered on the signal
  outcome,      \* settlement of the promise retry returned
  trace         \* calls made so far, in order

\* a strategy object used on its own (no retry loop around it)
VARIABLES
  scfg,         \* constructor arguments: which strategy, its parameters, upto(retries, _)
  sobj,         \* [attemptsLeft, inner]: the fields of the decorator and of the strategy
  scalls        \* nextBackoff()/resetBackoff() calls made so far, in order

\* waitFor() used on its own, several waits on one AbortSignal
VARIABLES
  waits,        \* wait number -> the promise waitFor returned and its timer
  wsignal,      \* [aborted, listeners]: the AbortSignal
  wlog          \* calls and callbacks so far, in order

\* the construction of one strategy object
VARIABLES
  made,         \* what the constructor call produced: an instance or a RangeError
  given         \* the strategy handed to upto(retries, strategy)

\* two retry sequences running concurrently
VARIABLES
  pcfg,         \* sequence -> [fn, c]: its operation and its strategy's arguments
  pseq,         \* sequence -> [pc, fnCalls, delays, outcome]
  pinst,        \* strategy instance -> [attemptsLeft, inner]: its fields
  porder        \* which sequence took each step so far

retryVars ==
  <<opts, fn, attemptsLeft, pc, attempt, fnCalls, aborted, timer, listeners,
    outcome, trace>>

stratVars == <<scfg, sobj, scalls>>

waitVars == <<waits, wsignal, wlog>>

newVars == <<made, given>>

pairVars == <<pcfg, pseq, pinst, porder>>

vars == <<retryVars, stratVars, waitVars, newVars, pairVars>>

Pending == [status |-> "pending", value |-> OpValue(0)]
Resolved(v) == [status |-> "resolved", value |-> v]
Rejected(e) == [status |-> "rejected", value |-> e]

\* ---------------------------------------------------------- trace events
Ev(kind, d, i, att, ret) == [kind |-> kind, d |-> d, i |-> i, att |-> att, ret |-> ret]

EvPre(d) == Ev("pre", d, 0, 0, FALSE)      \* nextBackoff() by the caller, before retry
EvReset == Ev("reset", NaN, 0, 0, FALSE)   \* strategy.resetBackoff()
EvFn(i) == Ev("fn", NaN, i, 0, FALSE)      \* fn(), i-th invocation
EvNext(d) == Ev("next", d, 0, 0, FALSE)    \* strategy.nextBackoff() returned d
EvStop(i, att, r) == Ev("stop", NaN, i, att, r) \* stop(error of invocation i, att) returned r
EvTimer(d) == Ev("timer", d, 0, 0, FALSE)  \* setTimeout(_, d)
EvSettle(i) == Ev("settle", NaN, i, 0, FALSE) \* the promise fn() returned settled
EvFire == Ev("fire", NaN, 0, 0, FALSE)     \* the timer callback ran
EvClear == Ev("clear", NaN, 0, 0, FALSE)   \* clearTimeout(timer)
EvAbort == Ev("abort", NaN, 0, 0, FALSE)   \* controller.abort(reason)

RECURSIVE CountKind(_, _)
CountKind(tr, kind) ==
  IF tr = <<>> THEN 0
  ELSE (IF Head(tr).kind = kind THEN 1 ELSE 0) + CountKind(Tail(tr), kind)

Positions(tr, kind) == { p \in 1..Len(tr) : tr[p].kind = kind }

\* ------------------------------------------------------------ strategies
\* ConstantBackoff.nextBackoff
ConstantNext == opts.delay

\* UptoBackoff.nextBackoff: `if (this.attemptsLeft-- <= 0) return NaN`
UptoNext(al) ==
  [ delay |-> IF al <= 0 THEN NaN ELSE ConstantNext,
    attemptsLeft |-> al - 1 ]

\* UptoBackoff.resetBackoff (ConstantBackoff.resetBackoff is a no-op)
UptoReset == opts.retries

\* the strategy object and the stand-alone waits are not used by the retry loop
StratIdle ==
  /\ scfg = [kind |-> "none"]
  /\ sobj = [attemptsLeft |-> 0]
  /\ scalls = <<>>

WaitIdle ==
  /\ waits = <<>>
  /\ wsignal = [aborted |-> FALSE, listeners |-> {}]
  /\ wlog = <<>>

\* no constructor has been called
NoCall == [class |-> "none"]

NewIdle ==
  /\ made = NoCall
  /\ given = [attemptCount |-> 0, calls |-> <<>>]

\* no pair of concurrent sequences is running
PairIdle ==
  /\ pcfg = <<>>
  /\ pseq = <<>>
  /\ pinst = <<>>
  /\ porder = <<>>

\* ------------------------------------------------------------------ Init
Init ==
  /\ opts \in [ retries : 0..MaxRetries, delay : Delays,
                hasStop : BOOLEAN, hasSignal : BOOLEAN ]
  /\ fn \in [1..MaxCalls -> FnKinds]
  /\ attemptsLeft = opts.retries
  /\ pc = "idle"
  /\ attempt = 0
  /\ fnCalls = 0
  /\ aborted = FALSE
  /\ timer = "none"
  /\ listeners = 0
  /\ outcome = Pending
  /\ trace = <<>>

\* --------------------------------------------------------------- retry()
\* the async function settles: nothing of the loop runs afterwards
Finish(out, tr) ==
  /\ pc' = "done"
  /\ outcome' = out
  /\ trace' = tr

\* waitFor with the bound test written `delay >= INT32_MAX`
WaitForGe(delay, tr, tm, ls) ==
  IF NumGt(delay, Num(0, INT32_MAX)) \/ delay = Num(0, INT32_MAX)
  THEN /\ Finish(Rejected(RangeErr), tr)
       /\ timer' = tm
       /\ listeners' = ls
  ELSE IF opts.hasSignal /\ aborted
  THEN /\ Finish(Rejected(AbortReason), tr)
       /\ timer' = tm
       /\ listeners' = ls
  ELSE /\ pc' = "waiting"
       /\ timer' = "pending"
       /\ listeners' = IF opts.hasSignal THEN ls + 1 ELSE ls
       /\ trace' = Append(tr, EvTimer(delay))
       /\ UNCHANGED outcome

\* waitFor that does not look at signal.aborted before it sets the timer
WaitForIgnoresAborted(delay, tr, tm, ls) ==
  IF NumGt(delay, Num(0, INT32_MAX))
  THEN /\ Finish(Rejected(RangeErr), tr)
       /\ timer' = tm
       /\ listeners' = ls
  ELSE /\ pc' = "waiting"
       /\ timer' = "pending"
       /\ listeners' = IF opts.hasSignal THEN ls + 1 ELSE ls
       /\ trace' = Append(tr, EvTimer(delay))
       /\ UNCHANGED outcome

\* waitFor(delay, signal) called from the catch block, and the `await` on it;
\* tm and ls are the timer state and the listener count when it is called
WaitFor(delay, tr, tm, ls) ==
  IF NumGt(delay, Num(0, INT32_MAX))
  THEN /\ Finish(Rejected(RangeErr), tr)
       /\ timer' = tm
       /\ listeners' = ls
  ELSE IF opts.hasSignal /\ aborted
  THEN /\ Finish(Rejected(AbortReason), tr)
       /\ timer' = tm
       /\ listeners' = ls
  ELSE /\ pc' = "waiting"
       /\ timer' = "pending"
       /\ listeners' = IF opts.hasSignal THEN ls + 1 ELSE ls
       /\ trace' = Append(tr, EvTimer(delay))
       /\ UNCHANGED outcome

\* the catch block continuing to the wait whatever stop() returned
CatchIgnoresStop(i, al, tr, stopRet, tm, ls) ==
  LET r == UptoNext(al)
      tr1 == Append(tr, EvNext(r.delay))
      tr2 == Append(tr1, EvStop(i, attempt, stopRet))
  IN /\ attemptsLeft' = r.attemptsLeft
     /\ IF IsNaN(r.delay)
        THEN /\ Finish(Rejected(OpError(i)), tr1)
             /\ timer' = tm
             /\ listeners' = ls
             /\ UNCHANGED attempt
        ELSE IF opts.hasStop
        THEN /\ attempt' = attempt + 1
             /\ WaitFor(r.delay, tr2, tm, ls)
        ELSE /\ UNCHANGED attempt
             /\ WaitFor(r.delay, tr1, tm, ls)

\* the catch block passing `++attempt` to stop()
CatchPreIncrement(i, al, tr, stopRet, tm, ls) ==
  LET r == UptoNext(al)
      tr1 == Append(tr, EvNext(r.delay))
      tr2 == Append(tr1, EvStop(i, attempt + 1, stopRet))
  IN /\ attemptsLeft' = r.attemptsLeft
     /\ IF IsNaN(r.delay)
        THEN /\ Finish(Rejected(OpError(i)), tr1)
             /\ timer' = tm
             /\ listeners' = ls
             /\ UNCHANGED attempt
        ELSE IF opts.hasStop
        THEN /\ attempt' = attempt + 1
             /\ IF stopRet
                THEN /\ Finish(Rejected(OpError(i)), tr2)
                     /\ timer' = tm
                     /\ listeners' = ls
                ELSE WaitFor(r.delay, tr2, tm, ls)
        ELSE /\ UNCHANGED attempt
             /\ WaitFor(r.delay, tr1, tm, ls)

\* the catch block rethrowing the first error it ever caught
CatchFirstError(i, al, tr, stopRet, tm, ls) ==
  LET r == UptoNext(al)
      tr1 == Append(tr, EvNext(r.delay))
      tr2 == Append(tr1, EvStop(i, attempt, stopRet))
  IN /\ attemptsLeft' = r.attemptsLeft
     /\ IF IsNaN(r.delay)
        THEN /\ Finish(Rejected(OpError(1)), tr1)
             /\ timer' = tm
             /\ listeners' = ls
             /\ UNCHANGED attempt
        ELSE IF opts.hasStop
        THEN /\ attempt' = attempt + 1
             /\ IF stopRet
                THEN /\ Finish(Rejected(OpError(1)), tr2)
                     /\ timer' = tm
                     /\ listeners' = ls
                ELSE WaitFor(r.delay, tr2, tm, ls)
        ELSE /\ UNCHANGED attempt
             /\ WaitFor(r.delay, tr1, tm, ls)

\* the catch block asking the stop predicate before the strategy
CatchStopFirst(i, al, tr, stopRet, tm, ls) ==
  LET r == UptoNext(al)
      tr1 == Append(tr, EvStop(i, attempt, stopRet))
      tr2 == Append(IF opts.hasStop THEN tr1 ELSE tr, EvNext(r.delay))
  IN IF opts.hasStop /\ stopRet
     THEN /\ attempt' = attempt + 1
          /\ attemptsLeft' = al
          /\ Finish(Rejected(OpError(i)), tr1)
          /\ timer' = tm
          /\ listeners' = ls
     ELSE /\ attempt' = IF opts.hasStop THEN attempt + 1 ELSE attempt
          /\ attemptsLeft' = r.attemptsLeft
          /\ IF IsNaN(r.delay)
             THEN /\ Finish(Rejected(OpError(i)), tr2)
                  /\ timer' = tm
                  /\ listeners' = ls
             ELSE WaitFor(r.delay, tr2, tm, ls)

\* the catch block for the error thrown by the i-th invocation;
\* al is the strategy's state, stopRet what stop() returns if it is called
Catch(i, al, tr, stopRet, tm, ls) ==
  LET r == UptoNext(al)
      tr1 == Append(tr, EvNext(r.delay))
      tr2 == Append(tr1, EvStop(i, attempt, stopRet))
  IN /\ attemptsLeft' = r.attemptsLeft
     /\ IF IsNaN(r.delay)
        THEN /\ Finish(Rejected(OpError(i)), tr1)
             /\ timer' = tm
             /\ listeners' = ls
             /\ UNCHANGED attempt
        ELSE IF opts.hasStop
        THEN /\ attempt' = attempt + 1
             /\ IF stopRet
                THEN /\ Finish(Rejected(OpError(i)), tr2)
                     /\ timer' = tm
                     /\ listeners' = ls
                ELSE WaitFor(r.delay, tr2, tm, ls)
        ELSE /\ UNCHANGED attempt
             /\ WaitFor(r.delay, tr1, tm, ls)

\* one pass of `try { return fn(); } catch (error) { ... }`
Attempt(al, tr, stopRet, tm, ls) ==
  LET i == fnCalls + 1
      tr0 == Append(tr, EvFn(i))
  IN /\ fnCalls' = i
     /\ CASE fn[i] = "return" ->
               /\ Finish(Resolved(OpValue(i)), tr0)
               /\ attemptsLeft' = al
               /\ timer' = tm
               /\ listeners' = ls
               /\ UNCHANGED attempt
          [] fn[i] = "throw" -> Catch(i, al, tr0, stopRet, tm, ls)
          [] OTHER ->
               \* the promise is returned without being awaited: the
               \* function leaves the try block, its result follows the promise
               /\ pc' = "inflight"
               /\ trace' = tr0
               /\ attemptsLeft' = al
               /\ timer' = tm
               /\ listeners' = ls
               /\ UNCHANGED <<attempt, outcome>>

\* the caller uses the strategy before handing it to retry()
PreUse ==
  /\ pc = "idle"
  /\ CountKind(trace, "pre") < MaxPreUse
  /\ LET r == UptoNext(attemptsLeft)
     IN /\ attemptsLeft' = r.attemptsLeft
        /\ trace' = Append(trace, EvPre(r.delay))
  /\ UNCHANGED <<stratVars, waitVars, newVars, pairVars>>
  /\ UNCHANGED <<opts, fn, pc, attempt, fnCalls, aborted, timer, listeners,
                 outcome>>

\* retry() without the resetBackoff() call at its start
RetryCallNoReset ==
  /\ pc = "idle"
  /\ \E stopRet \in BOOLEAN :
       Attempt(attemptsLeft, trace, stopRet, timer, listeners)
  /\ UNCHANGED <<stratVars, waitVars, newVars, pairVars>>
  /\ UNCHANGED <<opts, fn, aborted>>

\* retry(fn, {strategy, stop, signal}) up to its first suspension
RetryCall ==
  /\ pc = "idle"
  /\ \E stopRet \in BOOLEAN :
       Attempt(UptoReset, Append(trace, EvReset), stopRet, timer, listeners)
  /\ UNCHANGED <<stratVars, waitVars, newVars, pairVars>>
  /\ UNCHANGED <<opts, fn, aborted>>

\* the promise returned by fn() settles
FnSettle ==
  /\ pc = "inflight"
  /\ IF fn[fnCalls] = "resolve"
     THEN Finish(Resolved(OpValue(fnCalls)), Append(trace, EvSettle(fnCalls)))
     ELSE Finish(Rejected(OpError(fnCalls)), Append(trace, EvSettle(fnCalls)))
  /\ UNCHANGED <<stratVars, waitVars, newVars, pairVars>>
  /\ UNCHANGED <<opts, fn, attemptsLeft, attempt, fnCalls, aborted, timer,
                 listeners>>

\* the timer callback of a timer that repeats (setInterval): it stays pending
TimerFireRepeating ==
  /\ pc = "waiting"
  /\ timer = "pending"
  /\ \E stopRet \in BOOLEAN :
       Attempt(attemptsLeft, Append(trace, EvFire), stopRet, "pending",
               IF opts.hasSignal THEN listeners - 1 ELSE listeners)
  /\ UNCHANGED <<stratVars, waitVars, newVars, pairVars>>
  /\ UNCHANGED <<opts, fn, aborted>>

\* the timer callback of waitFor (removeEventListener, resolve), and the
\* loop resumed by it
TimerFire ==
  /\ pc = "waiting"
  /\ timer = "pending"
  /\ \E stopRet \in BOOLEAN :
       Attempt(attemptsLeft, Append(trace, EvFire), stopRet, "fired",
               IF opts.hasSignal THEN listeners - 1 ELSE listeners)
  /\ UNCHANGED <<stratVars, waitVars, newVars, pairVars>>
  /\ UNCHANGED <<opts, fn, aborted>>

\* abort() when waitFor registered no abort listener
AbortNoListener ==
  /\ opts.hasSignal
  /\ ~aborted
  /\ aborted' = TRUE
  /\ trace' = Append(trace, EvAbort)
  /\ UNCHANGED <<stratVars, waitVars, newVars, pairVars>>
  /\ UNCHANGED <<opts, fn, attemptsLeft, pc, attempt, fnCalls, timer,
                 listeners, outcome>>

\* controller.abort(reason): the listener of a pending wait runs
Abort ==
  /\ opts.hasSignal
  /\ ~aborted
  /\ aborted' = TRUE
  /\ IF pc = "waiting"
     THEN /\ timer' = "cleared"
          /\ Finish(Rejected(AbortReason), Append(Append(trace, EvAbort), EvClear))
     ELSE /\ trace' = Append(trace, EvAbort)
          /\ UNCHANGED <<pc, outcome, timer>>
  /\ UNCHANGED <<stratVars, waitVars, newVars, pairVars>>
  /\ UNCHANGED <<opts, fn, attemptsLeft, attempt, fnCalls, listeners>>

Next ==
  \/ PreUse
  \/ RetryCall
  \/ FnSettle
  \/ TimerFire
  \/ Abort

\* retry() is the only thing in use: no strategy object or wait of its own
SpecInit == Init /\ StratIdle /\ WaitIdle /\ NewIdle /\ PairIdle

Spec == SpecInit /\ [][Next]_vars

\* ------------------------------------------------------ reading the trace
Fails(i) == fn[i] \in {"throw", "reject"}
Succeeds(i) == fn[i] \in {"return", "resolve"}

\* the i-th invocation has been made and has completed
Completed(i) == i < fnCalls \/ (i = fnCalls /\ pc # "inflight")

\* nextBackoff() calls made by retry
NextCalls == CountKind(trace, "next")

\* position of the last invocation of the operation in the trace (0: none)
LastFn ==
  IF Positions(trace, "fn") = {} THEN 0
  ELSE CHOOSE p \in Positions(trace, "fn") : \A q \in Positions(trace, "fn") : q <= p

\* no event of the given kinds after position p
NoneAfter(p, kinds) == \A q \in (p + 1)..Len(trace) : trace[q].kind \notin kinds

\* the strategy / the stop predicate ended the loop at the last failure
StrategyStopped ==
  \E q \in Positions(trace, "next") : q > LastFn /\ IsNaN(trace[q].d)
PredicateStopped ==
  \E q \in Positions(trace, "stop") : q > LastFn /\ trace[q].ret

DelayFits == ~NumGt(opts.delay, Num(0, INT32_MAX))

\* ------------------------------------------------------------------ C1
\* C1: a failure of the operation is handled the same way whether it is
\* thrown synchronously or delivered as a rejected promise: every failed
\* invocation that has completed was caught and strategy.nextBackoff() was
\* consulted for it.
C1_FailureConsultsStrategy ==
  \A i \in 1..fnCalls : (Fails(i) /\ Completed(i)) => NextCalls >= i

\* ------------------------------------------------------------------ C2
\* C2: with no stop predicate, no signal and a strategy that does not stop,
\* an operation that fails f times and then succeeds makes retry resolve
\* with the successful result after exactly f+1 invocations and exactly f
\* nextBackoff() calls, and nothing of the loop happens after the success.
FailsThenSucceeds(f) ==
  /\ f + 1 <= MaxCalls
  /\ \A i \in 1..f : Fails(i)
  /\ Succeeds(f + 1)

C2_FailThenSucceed ==
  \A f \in 0..MaxRetries :
    ( /\ FailsThenSucceeds(f)
      /\ f <= opts.retries
      /\ DelayFits
      /\ ~opts.hasStop
      /\ ~opts.hasSignal
      /\ pc = "done" )
    => /\ outcome = Resolved(OpValue(f + 1))
       /\ fnCalls = f + 1
       /\ NextCalls = f
       /\ NoneAfter(LastFn, {"next", "stop", "timer"})

\* ------------------------------------------------------------------ C3
\* C3: with no stop predicate and no signal, an operation that always fails
\* and a strategy that returns NaN on its k-th call (finite delays before)
\* make retry invoke the operation exactly k times, call nextBackoff()
\* exactly k times and fail with the error of the k-th invocation.
C3_ExhaustionAfterK ==
  LET k == opts.retries + 1
  IN ( /\ \A i \in 1..MaxCalls : Fails(i)
       /\ DelayFits
       /\ ~opts.hasStop
       /\ ~opts.hasSignal
       /\ pc = "done" )
     => /\ fnCalls = k
        /\ NextCalls = k
        /\ outcome = Rejected(OpError(k))

\* position of the j-th event of a kind
Nth(kind, j) ==
  CHOOSE p \in Positions(trace, kind) :
    Cardinality({ q \in Positions(trace, kind) : q <= p }) = j

\* number of the j-th failed invocation
NthFailed(j) ==
  CHOOSE i \in 1..fnCalls :
    Fails(i) /\ Cardinality({ m \in 1..i : Fails(m) }) = j

\* ------------------------------------------------------------------ C4
\* C4: when the stop predicate returns true for a failure, retry ends
\* failing with exactly the error passed to the predicate, no timer is
\* started for the delay already computed and the operation is not invoked
\* again.
C4_StopPredicateEnds ==
  \A p \in Positions(trace, "stop") :
    trace[p].ret =>
      /\ pc = "done"
      /\ outcome = Rejected(OpError(trace[p].i))
      /\ trace[p].i = fnCalls
      /\ NoneAfter(p, {"timer", "fn", "next", "stop"})

C4_Witness ==
  \E p \in Positions(trace, "stop") :
    trace[p].ret /\ trace[p].i >= 2 /\ trace[p - 1].kind = "next"

\* ------------------------------------------------------------------ C5
\* C5: when the signal is aborted while retry waits between attempts, retry
\* ends failing with the signal's reason, the pending timer is cleared and
\* the operation is not invoked again.
AbortedWhileWaiting(p) == p > 1 /\ trace[p - 1].kind = "timer"

AbortedAtCall(p) == NoneAfter(0, {"reset"}) \/ p < Nth("reset", 1)
AbortedInFlight(p) ==
  /\ p > 1
  /\ trace[p - 1].kind = "fn"
  /\ fn[trace[p - 1].i] \in {"resolve", "reject"}

C6_AbortBeforeWait ==
  \A p \in Positions(trace, "abort") :
    ( /\ AbortedAtCall(p) \/ AbortedInFlight(p)
      /\ DelayFits
      /\ pc = "done" )
    => /\ Succeeds(fnCalls) => outcome = Resolved(OpValue(fnCalls))
       /\ (Fails(fnCalls) /\ ~StrategyStopped /\ ~PredicateStopped)
            => /\ outcome = Rejected(AbortReason)
               /\ NoneAfter(p, {"timer"})
               /\ fnCalls = (IF AbortedAtCall(p) THEN 1 ELSE trace[p - 1].i)

\* ------------------------------------------------------------------ C7
\* C7: every call of retry calls strategy.resetBackoff() exactly once,
\* before the first invocation of the operation and before any
\* nextBackoff() call, whatever state the strategy was in; the delays
\* retry then receives are those of a freshly constructed strategy.
RECURSIVE FreshState(_)
FreshState(j) ==
  IF j = 0 THEN opts.retries ELSE UptoNext(FreshState(j - 1)).attemptsLeft

FreshDelay(j) == UptoNext(FreshState(j - 1)).delay

C7_ResetOnceFirst ==
  IF pc = "idle"
  THEN CountKind(trace, "reset") = 0
  ELSE /\ CountKind(trace, "reset") = 1
       /\ \A p \in Positions(trace, "fn") \cup Positions(trace, "next") :
            Nth("reset", 1) < p
       /\ \A j \in 1..NextCalls : trace[Nth("next", j)].d = FreshDelay(j)

C7_Witness ==
  /\ \E p \in Positions(trace, "pre") : IsNaN(trace[p].d)
  /\ NextCalls >= 2
  /\ ~IsNaN(trace[Nth("next", 1)].d)

\* ------------------------------------------------------------------ C8
\* C8: the j-th invocation of the stop predicate (j = 1, 2, ...) receives
\* attempt index j-1 and the error of the j-th failed invocation of the
\* operation.
C8_AttemptIndex ==
  \A j \in 1..CountKind(trace, "stop") :
    /\ trace[Nth("stop", j)].att = j - 1
    /\ trace[Nth("stop", j)].i = NthFailed(j)

C8_Witness == CountKind(trace, "stop") >= 2 /\ attempt = 2

StoppedAt(p) == p < Len(trace) /\ trace[p + 1].kind = "stop" /\ trace[p + 1].ret
AbortedBefore(p) == \E q \in Positions(trace, "abort") : q < p

\* a timer for delay d was started for the nextBackoff() call at position p,
\* and once it has fired the operation was invoked again
WaitedThenRetried(p, d) ==
  \E q \in Positions(trace, "timer") :
    /\ q \in {p + 1, p + 2}
    /\ trace[q].d = d
    /\ (q < Len(trace) /\ trace[q + 1].kind = "fire")
         => (q + 2 <= Len(trace) /\ trace[q + 2].kind = "fn")

\* C10 as stated: when the operation fails and the strategy returns a delay
\* above 2^31 - 1, retry fails with a RangeError, no timer is started and
\* the operation is not invoked again; when the strategy returns exactly
\* 2^31 - 1 the wait is performed and the operation is retried.
C10_TooLongDelay ==
  \A p \in Positions(trace, "next") :
    /\ NumGt(trace[p].d, Num(0, INT32_MAX)) =>
         /\ outcome = Rejected(RangeErr)
         /\ NoneAfter(p, {"timer", "fn"})
    /\ trace[p].d = Num(0, INT32_MAX) => WaitedThenRetried(p, trace[p].d)

\* C10 amended: the same, provided the stop predicate does not return true
\* for that failure and, for the delay of exactly 2^31 - 1, the signal is
\* not aborted before the wait starts.
C10_TooLongDelayUnlessStopped ==
  \A p \in Positions(trace, "next") :
    /\ (NumGt(trace[p].d, Num(0, INT32_MAX)) /\ ~StoppedAt(p)) =>
         /\ outcome = Rejected(RangeErr)
         /\ pc = "done"
         /\ NoneAfter(p, {"timer", "fn"})
    /\ (trace[p].d = Num(0, INT32_MAX) /\ ~StoppedAt(p) /\ ~AbortedBefore(p)) =>
         WaitedThenRetried(p, trace[p].d)

C10_Witness ==
  \E q \in Positions(trace, "timer") :
    /\ trace[q].d = Num(0, INT32_MAX)
    /\ q + 2 <= Len(trace)
    /\ trace[q + 1].kind = "fire"
    /\ trace[q + 2].kind = "fn"

\* ----------------------------------------------------------------- C14
\* retry is called, and each invocation and each timer completes
LiveSpec == Spec /\ WF_vars(RetryCall) /\ WF_vars(FnSettle) /\ WF_vars(TimerFire)

\* the termination part of C14: with delays not above 2^31 - 1, retry with
\* upto(n, s) settles
C14_Terminates == DelayFits => <>(pc = "done")

\* C14: retry with strategy upto(n, s), s yielding only finite delays not
\* above 2^31 - 1, invokes the operation at most n+1 times, and exactly n+1
\* times with the last error surfaced when the operation always fails and
\* there is no stop predicate and no cancellation.
C14_UptoBoundsAttempts ==
  DelayFits =>
    /\ fnCalls <= opts.retries + 1
    /\ ( /\ \A i \in 1..MaxCalls : Fails(i)
         /\ ~opts.hasStop
         /\ ~opts.hasSignal
         /\ pc = "done" )
       => /\ fnCalls = opts.retries + 1
          /\ outcome = Rejected(OpError(opts.retries + 1))

\* the part of C14 that holds: the bound, and the exact count for an
\* operation whose failures are all thrown synchronously
C14_BoundsSyncAttempts ==
  DelayFits =>
    /\ fnCalls <= opts.retries + 1
    /\ ( /\ \A i \in 1..MaxCalls : fn[i] = "throw"
         /\ ~opts.hasStop
         /\ ~opts.hasSignal
         /\ pc = "done" )
       => /\ fnCalls = opts.retries + 1
          /\ outcome = Rejected(OpError(opts.retries + 1))

\* ================================================================ strategies
\* A strategy object used directly: either one of the nine strategies, or
\* upto(retries, strategy) around it.  Delays are computed on integers and
\* returned as JS numbers (Num); Math.random() returns r / RandDen.
MaxStratCalls == 5       \* calls made on the strategy object
RandDen == 4             \* Math.random() is one of 0/4, 1/4, 3/4
RandNums == {0, 1, 3}
ManyCalls == 1024        \* a long run of calls: enough for 2 ** attemptCount to overflow
FibCalls == 73           \* a long run of calls on FibonacciBackoff: delays reach 2^53

Kinds ==
  { "constant", "zero", "stop", "linear", "exponential", "fibonacci",
    "fullJitter", "equalJitter", "decorrelatedJitter" }
Stateless == {"constant", "zero", "stop"}
Jittered == {"fullJitter", "equalJitter", "decorrelatedJitter"}

\* valid constructor arguments: base (delay, initialDelay), increment, cap
Bases == {0, 3, 100}
Increments == {0, 50}
CapValues == {500}

ToNum(v) == Num(0, v)

Min2(a, b) == IF a <= b THEN a ELSE b

RECURSIVE Pow2(_)
Pow2(n) == IF n = 0 THEN 1 ELSE 2 * Pow2(n - 1)

\* floor(log2(n)) for n >= 1
RECURSIVE Log2(_)
Log2(n) == IF n <= 1 THEN 0 ELSE 1 + Log2(n \div 2)

\* --------------------------------------------------------------- doubles
\* The strategies compute on IEEE-754 doubles.  Besides NaN and the
\* non-negative integers below 2^62 (two limbs), a number is Infinity or
\* Huge: a finite double at least 2^MaxExactShift, not written out.
Infinity == <<"Infinity">>
Huge == <<"Huge">>

IsLimbs(x) == x # NaN /\ x # Infinity /\ x # Huge

Pow2Overflow == 1024     \* 2 ** n is Infinity for n >= 1024
MaxExactShift == 20      \* base * 2 ** n is written out up to this n

\* base * 2 ** n on doubles: 2 ** n overflows to Infinity at n = 1024, and
\* 0 * Infinity is NaN; scaling by a power of two is exact until it overflows
TimesPow2(base, n) ==
  IF n >= Pow2Overflow THEN (IF base = 0 THEN NaN ELSE Infinity)
  ELSE IF base = 0 THEN ToNum(0)
  ELSE IF n + Log2(base) >= Pow2Overflow THEN Infinity
  ELSE IF n > MaxExactShift THEN Huge
  ELSE ToNum(base * Pow2(n))

\* a <= b on limbs
NumLe(a, b) == a[1] < b[1] \/ (a[1] = b[1] /\ a[2] <= b[2])

\* Math.min(this.cap, x) on doubles: NaN if x is NaN; an omitted cap is
\* Number.POSITIVE_INFINITY; every cap of the model is below Huge
MinCap(c, x) ==
  IF IsNaN(x) THEN NaN
  ELSE IF ~c.capped THEN x
  ELSE IF IsLimbs(x) /\ NumLe(x, ToNum(c.cap)) THEN x
  ELSE ToNum(c.cap)

\* Math.floor(x * num / den) on doubles, num / den >= 0: 0 * Infinity is NaN
FloorTimes(x, num, den) ==
  IF IsNaN(x) THEN NaN
  ELSE IF x = Infinity THEN (IF num = 0 THEN NaN ELSE Infinity)
  ELSE IF x = Huge THEN (IF num = 0 THEN ToNum(0) ELSE Huge)
  ELSE ToNum((x[2] * num) \div den)

\* a + b on limbs, exactly
NumAddExact(a, b) ==
  LET carry == a[2] > INT32_MAX - b[2]
  IN << a[1] + b[1] + (IF carry THEN 1 ELSE 0),
        IF carry THEN a[2] - (INT32_MAX - b[2]) - 1 ELSE a[2] + b[2] >>

\* the double nearest to an integer (ties to the even mantissa): integers up
\* to 2^53 are doubles; from 2^(52+j) to 2^(53+j) only multiples of 2^j are
RoundToDouble(x) ==
  IF x[1] < Pow2(22) THEN x
  ELSE LET j == Log2(x[1]) - 21
           s == Pow2(j)
           q == x[2] \div s
           rem == x[2] % s
           up == rem > s \div 2 \/ (rem = s \div 2 /\ q % 2 = 1)
       IN IF ~up THEN << x[1], q * s >>
          ELSE IF q * s > INT32_MAX - s THEN << x[1] + 1, 0 >>
          ELSE << x[1], q * s + s >>

\* a + b on doubles holding integers
NumAdd(a, b) == RoundToDouble(NumAddExact(a, b))

\* Math.min(this.cap, x) on small integers; an omitted cap is
\* Number.POSITIVE_INFINITY (Number.MAX_SAFE_INTEGER for LinearBackoff)
CapAt(c, x) == IF c.capped THEN Min2(c.cap, x) ELSE x

StrategyState(n, prev, cur) ==
  [attemptCount |-> n, previousDelay |-> prev, currentDelay |-> cur]

\* the constructors: the fields a new strategy starts with
StrategyNew(c) ==
  CASE c.kind = "fibonacci" -> StrategyState(0, ToNum(0), ToNum(c.base))
    [] c.kind = "decorrelatedJitter" -> StrategyState(0, c.base, 0)
    [] OTHER -> StrategyState(0, 0, 0)

\* resetBackoff() that restores only part of the fields
StrategyResetPartial(c, st) ==
  CASE c.kind \in Stateless -> st
    [] c.kind = "fibonacci" -> [st EXCEPT !.currentDelay = ToNum(c.base)]
    [] c.kind = "decorrelatedJitter" -> st
    [] OTHER -> [st EXCEPT !.attemptCount = 0]

\* resetBackoff() that is not idempotent: it steps the state back by one
StrategyResetStepBack(c, st) ==
  CASE c.kind \in Stateless -> st
    [] c.kind = "fibonacci" ->
         [st EXCEPT !.previousDelay = ToNum(0), !.currentDelay = ToNum(c.base)]
    [] c.kind = "decorrelatedJitter" -> [st EXCEPT !.previousDelay = c.base]
    [] OTHER -> [st EXCEPT !.attemptCount = IF @ > 1 THEN @ - 2 ELSE 0]

\* resetBackoff() of each strategy
StrategyReset(c, st) ==
  CASE c.kind \in Stateless -> st
    [] c.kind = "fibonacci" ->
         [st EXCEPT !.previousDelay = ToNum(0), !.currentDelay = ToNum(c.base)]
    [] c.kind = "decorrelatedJitter" -> [st EXCEPT !.previousDelay = c.base]
    [] OTHER -> [st EXCEPT !.attemptCount = 0]

\* Math.min(this.cap, this.base * 2 ** this.attemptCount)
ExpDelay(c, st) == MinCap(c, TimesPow2(c.base, st.attemptCount))

\* ------------------------------------------- nextBackoff() of each class
\* LinearBackoff counting the attempt before computing the delay
LinearBackoffNextCountsFirst(c, st) ==
  [ delay |-> ToNum(CapAt(c, c.base + c.incr * (st.attemptCount + 1))),
    st |-> [st EXCEPT !.attemptCount = @ + 1] ]

\* LinearBackoff: min(cap, initialDelay + increment * attemptCount)
LinearBackoffNext(c, st) ==
  [ delay |-> ToNum(CapAt(c, c.base + c.incr * st.attemptCount)),
    st |-> [st EXCEPT !.attemptCount = @ + 1] ]

\* ExponentialBackoff: min(cap, base * 2 ** attemptCount)
ExponentialBackoffNext(c, st) ==
  [ delay |-> ExpDelay(c, st),
    st |-> [st EXCEPT !.attemptCount = @ + 1] ]

\* FibonacciBackoff forgetting to move currentDelay into previousDelay
FibonacciBackoffNextKeepsPrevious(c, st) ==
  [ delay |-> MinCap(c, st.currentDelay),
    st |-> [st EXCEPT !.currentDelay = NumAdd(st.previousDelay, st.currentDelay)] ]

\* FibonacciBackoff: delay = min(cap, currentDelay), then
\* (previousDelay, currentDelay) = (currentDelay, previousDelay + currentDelay)
FibonacciBackoffNext(c, st) ==
  [ delay |-> MinCap(c, st.currentDelay),
    st |-> [st EXCEPT !.previousDelay = st.currentDelay,
                      !.currentDelay = NumAdd(st.previousDelay, st.currentDelay)] ]

\* FullJitterBackoff: Math.floor(Math.random() * maxDelay)
FullJitterBackoffNext(c, st, r) ==
  [ delay |-> FloorTimes(ExpDelay(c, st), r, RandDen),
    st |-> [st EXCEPT !.attemptCount = @ + 1] ]

\* EqualJitterBackoff: half = temp / 2; Math.floor(half + Math.random() * half)
EqualJitterBackoffNext(c, st, r) ==
  LET temp == ExpDelay(c, st)
  IN [ delay |-> IF temp = Infinity /\ r = 0 THEN NaN
                 ELSE FloorTimes(temp, RandDen + r, 2 * RandDen),
       st |-> [st EXCEPT !.attemptCount = @ + 1] ]

\* DecorrelatedJitterBackoff remembering the random delay before the cap
DecorrelatedJitterBackoffNextKeepsUncapped(c, st, r) ==
  LET upperBound == st.previousDelay * 3
      randomDelay == (c.base * RandDen + r * (upperBound - c.base)) \div RandDen
      delay == CapAt(c, randomDelay)
  IN [ delay |-> ToNum(delay), st |-> [st EXCEPT !.previousDelay = randomDelay] ]

\* DecorrelatedJitterBackoff:
\*   Math.floor(base + Math.random() * (previousDelay * 3 - base)), capped,
\*   and remembered as previousDelay
DecorrelatedJitterBackoffNext(c, st, r) ==
  LET upperBound == st.previousDelay * 3
      randomDelay == (c.base * RandDen + r * (upperBound - c.base)) \div RandDen
      delay == CapAt(c, randomDelay)
  IN [ delay |-> ToNum(delay), st |-> [st EXCEPT !.previousDelay = delay] ]

\* nextBackoff() of each strategy; r is the numerator Math.random() returns
StrategyNext(c, st, r) ==
  CASE c.kind = "constant" -> [delay |-> ToNum(c.base), st |-> st]
    [] c.kind = "zero" -> [delay |-> ToNum(0), st |-> st]
    [] c.kind = "stop" -> [delay |-> NaN, st |-> st]
    [] c.kind = "linear" -> LinearBackoffNext(c, st)
    [] c.kind = "exponential" -> ExponentialBackoffNext(c, st)
    [] c.kind = "fibonacci" -> FibonacciBackoffNext(c, st)
    [] c.kind = "fullJitter" -> FullJitterBackoffNext(c, st, r)
    [] c.kind = "equalJitter" -> EqualJitterBackoffNext(c, st, r)
    [] c.kind = "decorrelatedJitter" -> DecorrelatedJitterBackoffNext(c, st, r)

\* the strategy after k nextBackoff() calls whose results are not used
RECURSIVE StrategyAfter(_, _, _)
StrategyAfter(c, st, k) ==
  IF k = 0 THEN st
  ELSE IF k = 1 THEN StrategyNext(c, st, 0).st
  ELSE LET half == k \div 2
           mid == StrategyAfter(c, st, half)
       IN IF mid.attemptCount >= 0 /\ half > 0
          THEN StrategyAfter(c, mid, k - half)
          ELSE st

\* new UptoBackoff(retries, strategy)
UptoBackoffNew(c) == [attemptsLeft |-> c.retries, inner |-> StrategyNew(c)]

\* UptoBackoff.nextBackoff with `<` for `<=`
UptoBackoffNextLt(c, o, r) ==
  IF o.attemptsLeft < 0
  THEN [ delay |-> NaN, delegated |-> FALSE,
         obj |-> [o EXCEPT !.attemptsLeft = @ - 1] ]
  ELSE LET n == StrategyNext(c, o.inner, r)
       IN [ delay |-> n.delay, delegated |-> TRUE,
            obj |-> [attemptsLeft |-> o.attemptsLeft - 1, inner |-> n.st] ]

\* UptoBackoff.nextBackoff that stops as soon as the inner strategy stops
UptoBackoffNextSticky(c, o, r) ==
  IF o.attemptsLeft <= 0
  THEN [ delay |-> NaN, delegated |-> FALSE,
         obj |-> [o EXCEPT !.attemptsLeft = @ - 1] ]
  ELSE LET n == StrategyNext(c, o.inner, r)
       IN [ delay |-> n.delay, delegated |-> TRUE,
            obj |-> [ attemptsLeft |-> IF IsNaN(n.delay) THEN 0 ELSE o.attemptsLeft - 1,
                      inner |-> n.st ] ]

\* UptoBackoff.nextBackoff that stops counting once exhausted
UptoBackoffNextKeepsCounter(c, o, r) ==
  IF o.attemptsLeft <= 0
  THEN [ delay |-> NaN, delegated |-> FALSE, obj |-> o ]
  ELSE LET n == StrategyNext(c, o.inner, r)
       IN [ delay |-> n.delay, delegated |-> TRUE,
            obj |-> [attemptsLeft |-> o.attemptsLeft - 1, inner |-> n.st] ]

\* UptoBackoff.nextBackoff:
\*   if (this.attemptsLeft-- <= 0) return NaN; return this.strategy.nextBackoff()
UptoBackoffNext(c, o, r) ==
  IF o.attemptsLeft <= 0
  THEN [ delay |-> NaN, delegated |-> FALSE,
         obj |-> [o EXCEPT !.attemptsLeft = @ - 1] ]
  ELSE LET n == StrategyNext(c, o.inner, r)
       IN [ delay |-> n.delay, delegated |-> TRUE,
            obj |-> [attemptsLeft |-> o.attemptsLeft - 1, inner |-> n.st] ]

\* UptoBackoff.resetBackoff that forgets to reset the counter
UptoBackoffResetInnerOnly(c, o) ==
  [attemptsLeft |-> o.attemptsLeft, inner |-> StrategyReset(c, o.inner)]

\* UptoBackoff.resetBackoff:
\*   this.attemptsLeft = this.retries; this.strategy.resetBackoff()
UptoBackoffReset(c, o) ==
  [attemptsLeft |-> c.retries, inner |-> StrategyReset(c, o.inner)]

\* ------------------------------------------------------- the calls made
\* one call on the decorator ("upto") or on the strategy ("inner"):
\* what it returned, the random number it drew, the object after it
SEv(on, op, d, r, delegated, after) ==
  [on |-> on, op |-> op, d |-> d, r |-> r, delegated |-> delegated, after |-> after]

\* calls made by the user of the object (not those the decorator delegates)
UserCalls(cs) ==
  Cardinality({ p \in 1..Len(cs) : cs[p].on = (IF scfg.wrapped THEN "upto" ELSE "inner") })

SConfigs ==
  { c \in [ kind : Kinds, base : Bases, incr : Increments, capped : BOOLEAN,
            cap : CapValues, wrapped : BOOLEAN, retries : 0..MaxRetries ] :
      /\ c.kind # "linear" => c.incr = 0
      /\ c.kind \in {"zero", "stop"} => c.base = 0
      /\ c.kind \in Stateless => ~c.capped
      /\ ~c.wrapped => c.retries = 0 }

RetryIdle ==
  /\ opts = [retries |-> 0, delay |-> Num(0, 0), hasStop |-> FALSE, hasSignal |-> FALSE]
  /\ fn = [i \in 1..MaxCalls |-> "return"]
  /\ attemptsLeft = 0
  /\ pc = "idle"
  /\ attempt = 0
  /\ fnCalls = 0
  /\ aborted = FALSE
  /\ timer = "none"
  /\ listeners = 0
  /\ outcome = Pending
  /\ trace = <<>>

StratInit ==
  /\ scfg \in SConfigs
  /\ sobj = UptoBackoffNew(scfg)
  /\ scalls = <<>>

\* strategy.nextBackoff() on a strategy that is not wrapped
StrategyNextCall ==
  /\ ~scfg.wrapped
  /\ UserCalls(scalls) < MaxStratCalls
  /\ \E r \in (IF scfg.kind \in Jittered THEN RandNums ELSE {0}) :
       LET n == StrategyNext(scfg, sobj.inner, r)
           o == [sobj EXCEPT !.inner = n.st]
       IN /\ sobj' = o
          /\ scalls' = Append(scalls, SEv("inner", "next", n.delay, r, FALSE, o))
  /\ UNCHANGED <<scfg, retryVars, waitVars, newVars, pairVars>>

\* strategy.resetBackoff() on a strategy that is not wrapped
StrategyResetCall ==
  /\ ~scfg.wrapped
  /\ UserCalls(scalls) < MaxStratCalls
  /\ LET o == [sobj EXCEPT !.inner = StrategyReset(scfg, sobj.inner)]
     IN /\ sobj' = o
        /\ scalls' = Append(scalls, SEv("inner", "reset", NaN, 0, FALSE, o))
  /\ UNCHANGED <<scfg, retryVars, waitVars, newVars, pairVars>>

\* a long run of nextBackoff() calls whose results are not looked at:
\* ManyCalls of them (FibCalls on a FibonacciBackoff), on a new object
ManyCallsOf(c) == IF c.kind = "fibonacci" THEN FibCalls ELSE ManyCalls

StrategyManyNextCalls ==
  /\ ~scfg.wrapped
  /\ scfg.kind # "decorrelatedJitter"
  /\ scalls = <<>>
  /\ LET o == [sobj EXCEPT !.inner = StrategyAfter(scfg, sobj.inner, ManyCallsOf(scfg))]
     IN /\ sobj' = o
        /\ scalls' = Append(scalls, SEv("inner", "nexts", NaN, 0, FALSE, o))
  /\ UNCHANGED <<scfg, retryVars, waitVars, newVars, pairVars>>

\* upto(retries, strategy).nextBackoff()
UptoNextCall ==
  /\ scfg.wrapped
  /\ UserCalls(scalls) < MaxStratCalls
  /\ \E r \in (IF scfg.kind \in Jittered THEN RandNums ELSE {0}) :
       LET n == UptoBackoffNext(scfg, sobj, r)
           inner == SEv("inner", "next", n.delay, r, FALSE, n.obj)
           outer == SEv("upto", "next", n.delay, r, n.delegated, n.obj)
       IN /\ sobj' = n.obj
          /\ scalls' = IF n.delegated
                       THEN scalls \o <<inner, outer>>
                       ELSE Append(scalls, outer)
  /\ UNCHANGED <<scfg, retryVars, waitVars, newVars, pairVars>>

\* upto(retries, strategy).resetBackoff()
UptoResetCall ==
  /\ scfg.wrapped
  /\ UserCalls(scalls) < MaxStratCalls
  /\ LET o == UptoBackoffReset(scfg, sobj)
     IN /\ sobj' = o
        /\ scalls' = scalls \o << SEv("inner", "reset", NaN, 0, FALSE, o),
                                  SEv("upto", "reset", NaN, 0, FALSE, o) >>
  /\ UNCHANGED <<scfg, retryVars, waitVars, newVars, pairVars>>

StratNext ==
  \/ StrategyNextCall
  \/ StrategyResetCall
  \/ StrategyManyNextCalls
  \/ UptoNextCall
  \/ UptoResetCall

StratSpecInit == RetryIdle /\ StratInit /\ WaitIdle /\ NewIdle /\ PairIdle

StratSpec == StratSpecInit /\ [][StratNext]_vars

\* ------------------------------------------------------ reading scalls
\* positions of the calls of one operation on the decorator / the strategy
SCalls(on, op) ==
  { p \in 1..Len(scalls) : scalls[p].on = on /\ scalls[p].op = op }

\* the object before the call recorded at position p
ObjBefore(p) == IF p = 1 THEN UptoBackoffNew(scfg) ELSE scalls[p - 1].after

\* first event of the decorator call that ends at position p: the call the
\* decorator delegates to the strategy is recorded just before it
CallStart(p) == IF p > 1 /\ scalls[p - 1].on = "inner" THEN p - 1 ELSE p

\* position of the last decorator reset before p (0: construction)
LastUptoReset(p) ==
  LET R == { q \in SCalls("upto", "reset") : q < p }
  IN IF R = {} THEN 0 ELSE CHOOSE q \in R : \A x \in R : x <= q

IsInnerNext(e) == e.on = "inner" /\ e.op = "next"

\* the strategy's nextBackoff() calls recorded in positions q+1 .. p
InnerNexts(q, p) == SelectSeq(SubSeq(scalls, q + 1, p), IsInnerNext)

UptoNextsIn(q, p) == Cardinality({ x \in SCalls("upto", "next") : q < x /\ x <= p })

DelaysOf(es) == [i \in 1..Len(es) |-> es[i].d]
RandomsOf(es) == [i \in 1..Len(es) |-> es[i].r]

\* the delays a strategy in state st returns for the random numbers rs
RECURSIVE StrategyRun(_, _, _)
StrategyRun(c, st, rs) ==
  IF rs = <<>> THEN <<>>
  ELSE LET n == StrategyNext(c, st, Head(rs))
       IN <<n.delay>> \o StrategyRun(c, n.st, Tail(rs))

\* ----------------------------------------------------------------- C11
\* C11: for every n >= 0 and an inner strategy that never returns NaN,
\* after construction or reset of UptoBackoff(n, inner) the first n
\* nextBackoff() calls return the inner strategy's delays in order and every
\* later call returns NaN; the inner nextBackoff() is invoked exactly n
\* times and never after exhaustion.
C11_UptoLimit ==
  (scfg.wrapped /\ scfg.kind # "stop") =>
    \A p \in SCalls("upto", "next") :
      LET q == LastUptoReset(p)
          j == UptoNextsIn(q, p)
          ins == InnerNexts(q, p)
      IN /\ Len(ins) = Min2(j, scfg.retries)
         /\ j <= scfg.retries =>
              /\ ~IsNaN(scalls[p].d)
              /\ scalls[p].d = ins[j].d
              /\ DelaysOf(ins) = StrategyRun(scfg, StrategyNew(scfg), RandomsOf(ins))
         /\ j > scfg.retries => IsNaN(scalls[p].d) /\ ~scalls[p].delegated

C11_Witness ==
  /\ scfg.wrapped
  /\ scfg.kind = "exponential"
  /\ scfg.retries = 2
  /\ SCalls("upto", "reset") = {}
  /\ Len(scalls) = 6
  /\ DelaysOf(scalls) =
       << ToNum(3), ToNum(3), ToNum(6), ToNum(6), NaN, NaN >>

C11_WitnessZero ==
  /\ scfg.wrapped
  /\ scfg.retries = 0
  /\ scfg.kind = "constant"
  /\ Len(scalls) >= 2
  /\ SCalls("inner", "next") = {}

\* ----------------------------------------------------------------- C12
\* the delays a decorator in state o returns for the random numbers rs
RECURSIVE UptoRun(_, _, _)
UptoRun(c, o, rs) ==
  IF rs = <<>> THEN <<>>
  ELSE LET n == UptoBackoffNext(c, o, Head(rs))
       IN <<n.delay>> \o UptoRun(c, n.obj, Tail(rs))

IsUptoNext(e) == e.on = "upto" /\ e.op = "next"

\* the decorator's nextBackoff() calls recorded in positions q+1 .. p
UptoNexts(q, p) == SelectSeq(SubSeq(scalls, q + 1, p), IsUptoNext)

\* position of the decorator call before position p (0: none)
PrevUptoCall(p) ==
  LET U == { q \in 1..(p - 1) : scalls[q].on = "upto" }
  IN IF U = {} THEN 0 ELSE CHOOSE q \in U : \A x \in U : x <= q

\* position of the next decorator reset after p, or the end of the history
UptoResetAfter(p) ==
  LET R == { q \in SCalls("upto", "reset") : q > p }
  IN IF R = {} THEN Len(scalls) ELSE CHOOSE q \in R : \A x \in R : q <= x

\* C12: UptoBackoff.resetBackoff(), called in any state, sets the counter
\* back to the configured retries and calls the inner strategy's
\* resetBackoff() exactly once; afterwards the decorator behaves exactly
\* like a newly constructed one: up to `retries` delegated delays, then NaN.
C12_UptoReset ==
  scfg.wrapped =>
    \A p \in SCalls("upto", "reset") :
      LET after == UptoNexts(p, UptoResetAfter(p))
      IN /\ scalls[p].after.attemptsLeft = scfg.retries
         /\ Cardinality({ q \in SCalls("inner", "reset") : PrevUptoCall(p) < q /\ q < p }) = 1
         /\ scalls[p].after = UptoBackoffNew(scfg)
         /\ DelaysOf(after) = UptoRun(scfg, UptoBackoffNew(scfg), RandomsOf(after))
         /\ \A j \in 1..Len(after) : after[j].delegated <=> j <= scfg.retries

C12_Witness ==
  /\ scfg.wrapped
  /\ scfg.retries = 1
  /\ scfg.kind = "linear"
  /\ scfg.incr = 50
  /\ Len(scalls) = 8
  /\ [i \in 1..8 |-> scalls[i].op] =
       << "next", "next", "next", "reset", "reset", "next", "next", "next" >>
  /\ scalls[3].after.attemptsLeft = -1
  /\ scalls[7].d = scalls[2].d

\* ----------------------------------------------------------------- C13
\* the decorator before the nextBackoff() call that ends at position p
UptoBefore(p) == ObjBefore(CallStart(p))

\* C13: while UptoBackoff is not exhausted, nextBackoff() returns exactly
\* what the inner strategy's nextBackoff() returns, the inner strategy's own
\* NaN included, and each such delegated call (NaN or not) takes one unit
\* from the remaining-attempts counter.
C13_UptoDelegates ==
  scfg.wrapped =>
    \A p \in SCalls("upto", "next") :
      UptoBefore(p).attemptsLeft > 0 =>
        /\ scalls[p].delegated
        /\ p > 1
        /\ IsInnerNext(scalls[p - 1])
        /\ scalls[p].d = scalls[p - 1].d
        /\ scalls[p].d =
             StrategyNext(scfg, UptoBefore(p).inner, scalls[p].r).delay
        /\ scalls[p].after.inner =
             StrategyNext(scfg, UptoBefore(p).inner, scalls[p].r).st
        /\ scalls[p].after.attemptsLeft = UptoBefore(p).attemptsLeft - 1

C13_Witness ==
  /\ scfg.wrapped
  /\ scfg.kind = "stop"
  /\ scfg.retries = 2
  /\ \E p \in SCalls("upto", "next") :
       /\ scalls[p].delegated
       /\ IsNaN(scalls[p].d)
       /\ UptoBefore(p).attemptsLeft = 2
       /\ scalls[p].after.attemptsLeft = 1
       /\ p + 2 <= Len(scalls)
       /\ scalls[p + 2].delegated

\* ----------------------------------------------------------------- C19
IsInner(e) == e.on = "inner"

\* the calls made on the strategy itself, directly or by the decorator
InnerCalls == SelectSeq(scalls, IsInner)

\* the nextBackoff() calls that follow position p of a history up to the
\* next resetBackoff()
RECURSIVE NextsFrom(_, _)
NextsFrom(es, p) ==
  IF p > Len(es) \/ es[p].op # "next" THEN <<>>
  ELSE <<es[p]>> \o NextsFrom(es, p + 1)

\* C19: for every strategy (Constant, Zero, Stop, Linear, Exponential,
\* Fibonacci, and the jitter strategies under a fixed random source) and
\* every k: after any sequence of nextBackoff() calls, resetBackoff()
\* followed by k nextBackoff() calls returns the same k values as k calls on
\* a freshly constructed instance with the same parameters.
C19_ResetIsFresh ==
  \A p \in 1..Len(InnerCalls) :
    InnerCalls[p].op = "reset" =>
      LET after == NextsFrom(InnerCalls, p + 1)
      IN /\ InnerCalls[p].after.inner = StrategyNew(scfg)
         /\ DelaysOf(after) = StrategyRun(scfg, StrategyNew(scfg), RandomsOf(after))

C19_Witness ==
  /\ ~scfg.wrapped
  /\ scfg.kind = "fibonacci"
  /\ scfg.base = 3
  /\ ~scfg.capped
  /\ Len(scalls) = 5
  /\ [i \in 1..5 |-> scalls[i].op] = << "next", "next", "reset", "next", "next" >>
  /\ DelaysOf(scalls) = << ToNum(3), ToNum(3), NaN, ToNum(3), ToNum(3) >>
  /\ scalls[2].after.inner.currentDelay = ToNum(6)

C19_WitnessJitter ==
  /\ ~scfg.wrapped
  /\ scfg.kind = "decorrelatedJitter"
  /\ scfg.base = 100
  /\ Len(scalls) = 5
  /\ [i \in 1..5 |-> scalls[i].op] = << "next", "next", "reset", "next", "next" >>
  /\ scalls[2].after.inner.previousDelay > 100
  /\ scalls[5].d # scalls[4].d

\* ----------------------------------------------------------------- C20
\* the calls made by the user of the object
IsUserCall(e) == e.on = (IF scfg.wrapped THEN "upto" ELSE "inner")
UserHistory == SelectSeq(scalls, IsUserCall)

\* C20: for every strategy, UptoBackoff included, calling resetBackoff()
\* two or more times in a row with no nextBackoff() in between leaves the
\* strategy in the same state as calling it once.
C20_ResetIdempotent ==
  \A p \in 2..Len(UserHistory) :
    (UserHistory[p].op = "reset" /\ UserHistory[p - 1].op = "reset") =>
      UserHistory[p].after = UserHistory[p - 1].after

C20_Witness ==
  /\ scfg.wrapped
  /\ scfg.kind = "exponential"
  /\ scfg.retries = 2
  /\ Len(UserHistory) = 5
  /\ [i \in 1..5 |-> UserHistory[i].op] =
       << "next", "next", "reset", "reset", "reset" >>
  /\ UserHistory[2].after.inner.attemptCount = 2
  /\ UserHistory[5].after = UptoBackoffNew(scfg)

\* =================================================================== waitFor
\* waitFor(delay, signal) used directly: up to MaxWaits calls, those with a
\* signal all on the same signal.  waits[w] is the w-th call.
MaxWaits == 3

WaitDelays == { Num(0, 0), Num(0, INT32_MAX), Num(1, 0) }

Wait(delay, withSignal, status, err, tm) ==
  [delay |-> delay, withSignal |-> withSignal, status |-> status, err |-> err,
   timer |-> tm]

\* what happened, in order: WEv(kind, w) for the w-th call
WEv(kind, w) == [kind |-> kind, w |-> w]

\* waitFor with `>=` for `>`
WaitForStartGe(w, delay, withSignal, sig) ==
  IF NumGt(delay, Num(0, INT32_MAX)) \/ delay = Num(0, INT32_MAX)
  THEN [ wait |-> Wait(delay, withSignal, "threw", RangeErr, "none"),
         listeners |-> sig.listeners,
         log |-> << WEv("call", w), WEv("throw", w) >> ]
  ELSE IF withSignal /\ sig.aborted
  THEN [ wait |-> Wait(delay, withSignal, "rejected", AbortReason, "none"),
         listeners |-> sig.listeners,
         log |-> << WEv("call", w), WEv("reject", w) >> ]
  ELSE [ wait |-> Wait(delay, withSignal, "pending", "none", "pending"),
         listeners |-> IF withSignal THEN sig.listeners \cup {w} ELSE sig.listeners,
         log |-> << WEv("call", w), WEv("timer", w) >>
                   \o (IF withSignal THEN << WEv("listen", w) >> ELSE << >>) ]

\* waitFor without the check of signal.aborted
WaitForStartNoAbortedCheck(w, delay, withSignal, sig) ==
  IF NumGt(delay, Num(0, INT32_MAX))
  THEN [ wait |-> Wait(delay, withSignal, "threw", RangeErr, "none"),
         listeners |-> sig.listeners,
         log |-> << WEv("call", w), WEv("throw", w) >> ]
  ELSE [ wait |-> Wait(delay, withSignal, "pending", "none", "pending"),
         listeners |-> IF withSignal THEN sig.listeners \cup {w} ELSE sig.listeners,
         log |-> << WEv("call", w), WEv("timer", w) >>
                   \o (IF withSignal THEN << WEv("listen", w) >> ELSE << >>) ]

\* the synchronous part of waitFor(delay, signal): the range check, the
\* check of signal.aborted, setTimeout and addEventListener
WaitForStart(w, delay, withSignal, sig) ==
  IF NumGt(delay, Num(0, INT32_MAX))
  THEN [ wait |-> Wait(delay, withSignal, "threw", RangeErr, "none"),
         listeners |-> sig.listeners,
         log |-> << WEv("call", w), WEv("throw", w) >> ]
  ELSE IF withSignal /\ sig.aborted
  THEN [ wait |-> Wait(delay, withSignal, "rejected", AbortReason, "none"),
         listeners |-> sig.listeners,
         log |-> << WEv("call", w), WEv("reject", w) >> ]
  ELSE [ wait |-> Wait(delay, withSignal, "pending", "none", "pending"),
         listeners |-> IF withSignal THEN sig.listeners \cup {w} ELSE sig.listeners,
         log |-> << WEv("call", w), WEv("timer", w) >>
                   \o (IF withSignal THEN << WEv("listen", w) >> ELSE << >>) ]

\* resolve() / reject(reason) settle a promise only while it is pending
Settle(wt, status, err) ==
  IF wt.status = "pending" THEN [wt EXCEPT !.status = status, !.err = err] ELSE wt

\* the timer callback without removeEventListener
TimerCallbackKeepsListener(w, wt, sig) ==
  [ wait |-> Settle([wt EXCEPT !.timer = "fired"], "resolved", "none"),
    listeners |-> sig.listeners,
    log |-> << WEv("fire", w), WEv("resolve", w) >> ]

\* the timer callback: signal?.removeEventListener("abort", listener); resolve()
TimerCallback(w, wt, sig) ==
  [ wait |-> Settle([wt EXCEPT !.timer = "fired"], "resolved", "none"),
    listeners |-> sig.listeners \ {w},
    log |-> << WEv("fire", w) >>
              \o (IF wt.withSignal THEN << WEv("unlisten", w) >> ELSE << >>)
              \o << WEv("resolve", w) >> ]

\* clearTimeout(timer) that leaves the timer running
ClearTimeoutIgnored(tm) == tm

\* clearTimeout(timer): a timer that has not fired never fires
ClearTimeout(tm) == IF tm = "pending" THEN "cleared" ELSE tm

\* the abort listener without clearTimeout
AbortListenerNoClear(w, wt) ==
  [ wait |-> Settle(wt, "rejected", AbortReason),
    log |-> << WEv("reject", w) >> ]

\* the abort listener: clearTimeout(timer); reject(signal?.reason)
AbortListener(w, wt) ==
  [ wait |-> Settle([wt EXCEPT !.timer = ClearTimeout(@)], "rejected", AbortReason),
    log |-> << WEv("clear", w), WEv("reject", w) >> ]

\* the events of the listeners run by an abort, in registration order
RECURSIVE ListenersLog(_, _, _)
ListenersLog(ws, ls, w) ==
  IF w > Len(ws) THEN << >>
  ELSE (IF w \in ls THEN AbortListener(w, ws[w]).log ELSE << >>)
         \o ListenersLog(ws, ls, w + 1)

WaitSpecInit == RetryIdle /\ StratIdle /\ WaitIdle /\ NewIdle /\ PairIdle

\* waitFor(delay, signal) or waitFor(delay)
WaitForCall ==
  /\ Len(waits) < MaxWaits
  /\ \E delay \in WaitDelays, withSignal \in BOOLEAN :
       LET w == Len(waits) + 1
           r == WaitForStart(w, delay, withSignal, wsignal)
       IN /\ waits' = Append(waits, r.wait)
          /\ wsignal' = [wsignal EXCEPT !.listeners = r.listeners]
          /\ wlog' = wlog \o r.log
  /\ UNCHANGED <<retryVars, stratVars, newVars, pairVars>>

\* a pending timer fires
WaitTimerFire ==
  /\ \E w \in 1..Len(waits) :
       /\ waits[w].timer = "pending"
       /\ LET r == TimerCallback(w, waits[w], wsignal)
          IN /\ waits' = [waits EXCEPT ![w] = r.wait]
             /\ wsignal' = [wsignal EXCEPT !.listeners = r.listeners]
             /\ wlog' = wlog \o r.log
  /\ UNCHANGED <<retryVars, stratVars, newVars, pairVars>>

\* controller.abort(reason): every registered abort listener runs
SignalAbort ==
  /\ ~wsignal.aborted
  /\ wsignal' = [wsignal EXCEPT !.aborted = TRUE]
  /\ waits' = [ w \in 1..Len(waits) |->
                  IF w \in wsignal.listeners
                  THEN AbortListener(w, waits[w]).wait ELSE waits[w] ]
  /\ wlog' = Append(wlog, WEv("abort", 0)) \o ListenersLog(waits, wsignal.listeners, 1)
  /\ UNCHANGED <<retryVars, stratVars, newVars, pairVars>>

WaitNext ==
  \/ WaitForCall
  \/ WaitTimerFire
  \/ SignalAbort

WaitSpec == WaitSpecInit /\ [][WaitNext]_vars

\* ------------------------------------------------------- reading wlog
WPos(kind, w) == { p \in 1..Len(wlog) : wlog[p].kind = kind /\ wlog[p].w = w }

\* position of the call of the w-th wait
WCall(w) == CHOOSE p \in WPos("call", w) : TRUE

\* the signal was aborted before the w-th wait, which was given the signal
WAlreadyAborted(w) ==
  /\ waits[w].withSignal
  /\ \E p \in WPos("abort", 0) : p < WCall(w)

\* the w-th call failed before it returned: what it did is the next event
WFailedAtOnce(w, kind) ==
  /\ WCall(w) < Len(wlog)
  /\ wlog[WCall(w) + 1] = WEv(kind, w)
  /\ WPos("timer", w) = {}
  /\ WPos("listen", w) = {}
  /\ WPos("resolve", w) = {}
  /\ w \notin wsignal.listeners
  /\ waits[w].timer = "none"

WTooLong(w) == NumGt(waits[w].delay, Num(0, INT32_MAX))

\* a timer was scheduled by the w-th call, and once it has fired the wait
\* is resolved
WTimerThenResolved(w) ==
  /\ WPos("timer", w) # {}
  /\ WPos("fire", w) # {} => waits[w].status = "resolved"

\* ----------------------------------------------------------------- C15
\* C15 as stated: waitFor(delay, signal) with delay > 2^31 - 1 fails
\* synchronously with a RangeError before any timer is scheduled and before
\* any abort listener is registered; with delay exactly 2^31 - 1 a timer is
\* scheduled and the wait resolves when it fires.
C15_RangeCheck ==
  \A w \in 1..Len(waits) :
    /\ WTooLong(w) =>
         /\ waits[w].status = "threw"
         /\ waits[w].err = RangeErr
         /\ WFailedAtOnce(w, "throw")
    /\ waits[w].delay = Num(0, INT32_MAX) => WTimerThenResolved(w)

\* C15 amended: the same, where for the delay of exactly 2^31 - 1 the
\* signal, if one is given, is not already aborted at the call.
C15_RangeCheckUnlessAborted ==
  \A w \in 1..Len(waits) :
    /\ WTooLong(w) =>
         /\ waits[w].status = "threw"
         /\ waits[w].err = RangeErr
         /\ WFailedAtOnce(w, "throw")
    /\ (waits[w].delay = Num(0, INT32_MAX) /\ ~WAlreadyAborted(w)) =>
         WTimerThenResolved(w)

C15_Witness ==
  \E w, x \in 1..Len(waits) :
    /\ waits[w].delay = Num(0, INT32_MAX)
    /\ waits[w].withSignal
    /\ waits[w].status = "resolved"
    /\ WTooLong(x)
    /\ waits[x].status = "threw"

\* ----------------------------------------------------------------- C16
\* C16 as stated: waitFor called with a signal that is already aborted
\* fails immediately with the signal's reason; no timer is ever started, no
\* abort listener is registered, and the wait never resolves.
C16_AlreadyAborted ==
  \A w \in 1..Len(waits) :
    WAlreadyAborted(w) =>
      /\ waits[w].status = "rejected"
      /\ waits[w].err = AbortReason
      /\ WFailedAtOnce(w, "reject")

\* C16 amended: the same for a delay not above 2^31 - 1.
C16_AlreadyAbortedDelayFits ==
  \A w \in 1..Len(waits) :
    (WAlreadyAborted(w) /\ ~WTooLong(w)) =>
      /\ waits[w].status = "rejected"
      /\ waits[w].err = AbortReason
      /\ WFailedAtOnce(w, "reject")

C16_Witness ==
  \E w \in 2..Len(waits) :
    /\ WAlreadyAborted(w)
    /\ waits[w].delay = Num(0, INT32_MAX)
    /\ waits[w].status = "rejected"
    /\ w < Len(waits)
    /\ wsignal.listeners # {}

\* ----------------------------------------------------------------- C17
\* the listener of the w-th wait ran while its timer was pending: the abort
\* came after the timer was set and before any fire of it
WAbortedWhilePending(w) ==
  \E p \in WPos("abort", 0), t \in WPos("timer", w) :
    /\ t < p
    /\ waits[w].withSignal
    /\ \A f \in WPos("fire", w) : p < f

\* C17: if the signal is aborted while a waitFor timer is pending, the wait
\* fails with the signal's reason, the pending timer is cleared, and the
\* wait never resolves afterwards: the timer callback never runs for it.
C17_AbortWhilePending ==
  \A w \in 1..Len(waits) :
    WAbortedWhilePending(w) =>
      /\ waits[w].status = "rejected"
      /\ waits[w].err = AbortReason
      /\ waits[w].timer = "cleared"
      /\ WPos("clear", w) # {}
      /\ WPos("fire", w) = {}
      /\ WPos("resolve", w) = {}

C17_Witness ==
  \E w, x \in 1..Len(waits) :
    /\ WAbortedWhilePending(w)
    /\ waits[w].status = "rejected"
    /\ waits[x].status = "resolved"
    /\ waits[x].withSignal
    /\ w < x
    /\ Len(waits) = MaxWaits

\* ----------------------------------------------------------------- C18
\* the timer of the w-th wait fired normally
WCompleted(w) == WPos("fire", w) # {}

\* C18: when a waitFor timer fires normally, the abort listener registered
\* by that wait is removed from the signal before the wait resolves; after
\* any number of completed waits on one signal no listener of a completed
\* wait remains registered, and a later abort does not change the outcome
\* of a completed wait.
C18_ListenerReleased ==
  \A w \in 1..Len(waits) :
    WCompleted(w) =>
      /\ waits[w].status = "resolved"
      /\ w \notin wsignal.listeners
      /\ waits[w].withSignal =>
           \E u \in WPos("unlisten", w), r \in WPos("resolve", w) :
             /\ u < r
             /\ \A l \in WPos("listen", w) : l < u
      /\ WPos("reject", w) = {}
      /\ WPos("clear", w) = {}

C18_Witness ==
  /\ Len(waits) = MaxWaits
  /\ \A w \in 1..Len(waits) : waits[w].withSignal /\ WCompleted(w)
  /\ wsignal.aborted
  /\ wsignal.listeners = {}
  /\ wlog[Len(wlog)] = WEv("abort", 0)

\* =============================================== delays of the strategies
\* the calls on the strategy itself are InnerCalls; position p is a
\* nextBackoff() call of a strategy of the given class
IsNextOf(kind, p) == scfg.kind = kind /\ InnerCalls[p].op = "next"

\* position of the last resetBackoff() before p (0: construction)
LastInnerReset(p) ==
  LET R == { q \in 1..(p - 1) : InnerCalls[q].op = "reset" }
  IN IF R = {} THEN 0 ELSE CHOOSE q \in R : \A x \in R : x <= q

\* nextBackoff() calls made in positions q+1 .. p-1
NextCallsIn(q, p) ==
  Cardinality({ x \in (q + 1)..(p - 1) : InnerCalls[x].op = "next" })
    + ManyCallsOf(scfg)
        * Cardinality({ x \in (q + 1)..(p - 1) : InnerCalls[x].op = "nexts" })

\* the call at position p is the n-th (n = 0, 1, ...) since construction or
\* the last reset
CallIndex(p) == NextCallsIn(LastInnerReset(p), p)

\* the strategy's fields before / after the call at position p
InnerBefore(p) ==
  IF p = 1 THEN StrategyNew(scfg) ELSE InnerCalls[p - 1].after.inner
InnerAfter(p) == InnerCalls[p].after.inner

\* ----------------------------------------------------------------- C21
\* min(cap, base * 2^n) in exact arithmetic: 2^n alone exceeds the cap when
\* n > log2(cap)
ExactExp(c, n) ==
  IF c.base = 0 THEN 0
  ELSE IF n > Log2(c.cap) THEN c.cap
  ELSE Min2(c.cap, c.base * Pow2(n))

\* C21: for ExponentialBackoff(base, cap) with valid integer parameters, the
\* n-th nextBackoff() call since construction or the last reset
\* (n = 0, 1, 2, ...) returns min(cap, base * 2^n).
C21_ExponentialDelays ==
  \A p \in 1..Len(InnerCalls) :
    (IsNextOf("exponential", p) /\ scfg.capped) =>
      InnerCalls[p].d = ToNum(ExactExp(scfg, CallIndex(p)))

\* the part of C21 that holds: the same for base > 0, and for base = 0 up
\* to the call at which 2 ** attemptCount overflows
C21_ExponentialDelaysBeforeOverflow ==
  \A p \in 1..Len(InnerCalls) :
    ( /\ IsNextOf("exponential", p)
      /\ scfg.capped
      /\ scfg.base > 0 \/ CallIndex(p) < Pow2Overflow )
    => InnerCalls[p].d = ToNum(ExactExp(scfg, CallIndex(p)))

\* ----------------------------------------------------------------- C22
\* C22: for LinearBackoff(increment, initialDelay, cap) with valid integer
\* parameters, the n-th nextBackoff() call since construction or the last
\* reset (n = 0, 1, 2, ...) returns min(cap, initialDelay + increment * n).
C22_LinearDelays ==
  \A p \in 1..Len(InnerCalls) :
    IsNextOf("linear", p) =>
      InnerCalls[p].d =
        ToNum(CapAt(scfg, scfg.base + scfg.incr * CallIndex(p)))

C22_Witness ==
  /\ ~scfg.wrapped
  /\ scfg.kind = "linear"
  /\ scfg.incr = 50
  /\ scfg.base = 100
  /\ ~scfg.capped
  /\ Len(scalls) = 5
  /\ [i \in 1..5 |-> scalls[i].op] = << "next", "reset", "next", "next", "next" >>
  /\ DelaysOf(scalls) = << ToNum(100), NaN, ToNum(100), ToNum(150), ToNum(200) >>

\* ----------------------------------------------------------------- C23
\* (base * fib(n-1), base * fib(n)) in exact integer arithmetic, fib(-1) = 0,
\* fib = 1, 1, 2, 3, 5, 8, ...
FibStep(q) == << q[2], NumAddExact(q[1], q[2]) >>

RECURSIVE FibAfter(_, _)
FibAfter(q, k) ==
  IF k = 0 THEN q
  ELSE IF k = 1 THEN FibStep(q)
  ELSE LET half == k \div 2
           mid == FibAfter(q, half)
       IN IF mid[1][1] >= 0 /\ half > 0
          THEN FibAfter(mid, k - half)
          ELSE q

FibPair(base, n) == FibAfter(<< ToNum(0), ToNum(base) >>, n)

\* 2^53: every integer up to it is a double
MaxExactDouble == << Pow2(22), 0 >>

\* nextBackoff() calls made by the call at position p
CallsAt(p) ==
  IF InnerCalls[p].op = "next" THEN 1
  ELSE IF InnerCalls[p].op = "nexts" THEN ManyCallsOf(scfg)
  ELSE 0

FibPairAt(p) ==
  << InnerAfter(p).previousDelay, InnerAfter(p).currentDelay >>

C23_WitnessFirstCalls ==
  /\ ~scfg.wrapped
  /\ scfg.kind = "fibonacci"
  /\ scfg.base = 100
  /\ ~scfg.capped
  /\ Len(scalls) = 5
  /\ \A i \in 1..5 : scalls[i].op = "next"
  /\ DelaysOf(scalls) =
       << ToNum(100), ToNum(100), ToNum(200), ToNum(300), ToNum(500) >>

\* ----------------------------------------------------------------- C24
Deterministic == {"constant", "zero", "linear", "exponential", "fibonacci"}

\* the strategy has a finite upper bound: ConstantBackoff and ZeroBackoff
\* take no cap and always return their delay
HasFiniteCap(c) == c.kind \in {"constant", "zero"} \/ c.capped
FiniteCap(c) == IF c.kind \in {"constant", "zero"} THEN c.base ELSE c.cap

\* C24: for Constant, Zero, Linear, Exponential and Fibonacci strategies with
\* valid integer parameters and a finite cap, every nextBackoff() returns a
\* delay d with base <= d <= cap and never the stop sentinel; only
\* StopBackoff and an exhausted UptoBackoff return the sentinel.
C24_DelayWithinBounds ==
  /\ \A p \in 1..Len(InnerCalls) :
       ( /\ scfg.kind \in Deterministic
         /\ HasFiniteCap(scfg)
         /\ InnerCalls[p].op = "next" )
       => /\ ~IsNaN(InnerCalls[p].d)
          /\ IsLimbs(InnerCalls[p].d)
          /\ NumLe(ToNum(scfg.base), InnerCalls[p].d)
          /\ NumLe(InnerCalls[p].d, ToNum(FiniteCap(scfg)))
  /\ \A p \in 1..Len(scalls) :
       (scalls[p].op = "next" /\ IsNaN(scalls[p].d)) =>
         \/ scfg.kind = "stop"
         \/ scalls[p].on = "upto" /\ UptoBefore(p).attemptsLeft <= 0

\* the part of C24 that holds: the same, except for a strategy with base 0
\* or no cap whose 2 ** attemptCount has overflowed
C24_DelayWithinBoundsBeforeOverflow ==
  /\ \A p \in 1..Len(InnerCalls) :
       ( /\ scfg.kind \in Deterministic
         /\ HasFiniteCap(scfg)
         /\ InnerCalls[p].op = "next"
         /\ scfg.kind = "exponential" =>
              (scfg.base > 0 \/ CallIndex(p) < Pow2Overflow) )
       => /\ ~IsNaN(InnerCalls[p].d)
          /\ IsLimbs(InnerCalls[p].d)
          /\ NumLe(ToNum(scfg.base), InnerCalls[p].d)
          /\ NumLe(InnerCalls[p].d, ToNum(FiniteCap(scfg)))
  /\ \A p \in 1..Len(scalls) :
       (scalls[p].op = "next" /\ IsNaN(scalls[p].d)) =>
         \/ scfg.kind = "stop"
         \/ scalls[p].on = "upto" /\ UptoBefore(p).attemptsLeft <= 0
         \/ /\ scfg.kind \in {"exponential", "fullJitter", "equalJitter"}
            /\ scfg.base = 0 \/ ~scfg.capped
            /\ \E q \in 1..(p - 1) : scalls[q].op = "nexts"

\* ----------------------------------------------------------------- C25
\* floor(r * max) for the random number r / RandDen
FloorOfRandomTimes(r, max) == (r * max) \div RandDen

\* C25: for FullJitterBackoff(base, cap) with valid integer parameters and
\* any random value r in [0, 1), the n-th nextBackoff() call since
\* construction or reset returns floor(r * max) with
\* max = min(cap, base * 2^n), so 0 <= delay < max when max > 0 and
\* delay = 0 when max = 0; the attempt count advances by one per call.
C25_FullJitterDelays ==
  \A p \in 1..Len(InnerCalls) :
    (IsNextOf("fullJitter", p) /\ scfg.capped) =>
      LET max == ExactExp(scfg, CallIndex(p))
          d == InnerCalls[p].d
      IN /\ d = ToNum(FloorOfRandomTimes(InnerCalls[p].r, max))
         /\ max > 0 => NumLe(d, ToNum(max - 1))
         /\ max = 0 => d = ToNum(0)
         /\ InnerAfter(p).attemptCount = InnerBefore(p).attemptCount + 1

\* the part of C25 that holds: the same for base > 0, and for base = 0 up
\* to the call at which 2 ** attemptCount overflows
C25_FullJitterDelaysBeforeOverflow ==
  \A p \in 1..Len(InnerCalls) :
    ( /\ IsNextOf("fullJitter", p)
      /\ scfg.capped
      /\ scfg.base > 0 \/ CallIndex(p) < Pow2Overflow )
    => LET max == ExactExp(scfg, CallIndex(p))
           d == InnerCalls[p].d
       IN /\ d = ToNum(FloorOfRandomTimes(InnerCalls[p].r, max))
          /\ max > 0 => NumLe(d, ToNum(max - 1))
          /\ max = 0 => d = ToNum(0)
          /\ InnerAfter(p).attemptCount = InnerBefore(p).attemptCount + 1

\* ----------------------------------------------------------------- C26
\* C26: for EqualJitterBackoff(base, cap) with valid parameters and any
\* random value r in [0, 1), the n-th nextBackoff() call since construction
\* or reset returns half + floor(r * half) with
\* half = min(cap, base * 2^n) / 2, so the delay is never below half and is
\* below min(cap, base * 2^n) (0 when that is 0), for every base including
\* odd values.  (Stated on twice the delay, half being a multiple of 1/2.)
C26_EqualJitterDelays ==
  \A p \in 1..Len(InnerCalls) :
    (IsNextOf("equalJitter", p) /\ scfg.capped) =>
      LET temp == ExactExp(scfg, CallIndex(p))
          d == InnerCalls[p].d
      IN /\ IsLimbs(d)
         /\ d[1] = 0
         /\ 2 * d[2] = temp + 2 * ((InnerCalls[p].r * temp) \div (2 * RandDen))
         /\ 2 * d[2] >= temp
         /\ temp > 0 => d[2] < temp
         /\ temp = 0 => d[2] = 0

\* what the code returns instead: floor(half + r * half), which is below
\* half by 1/2 when min(cap, base * 2^n) is odd and r * half < 1/2; for
\* base = 0 up to the call at which 2 ** attemptCount overflows
C26_EqualJitterFloorOfSum ==
  \A p \in 1..Len(InnerCalls) :
    ( /\ IsNextOf("equalJitter", p)
      /\ scfg.capped
      /\ scfg.base > 0 \/ CallIndex(p) < Pow2Overflow )
    => LET temp == ExactExp(scfg, CallIndex(p))
           d == InnerCalls[p].d
       IN /\ IsLimbs(d)
          /\ d[1] = 0
          /\ d[2] = (temp * (RandDen + InnerCalls[p].r)) \div (2 * RandDen)
          /\ 2 * d[2] >= temp - 1
          /\ temp > 0 => d[2] < temp
          /\ temp = 0 => d[2] = 0

\* ----------------------------------------------------------------- C27
\* the delay returned by the call before position p, the base right after
\* construction or a reset
PreviouslyReturned(p) ==
  IF p = 1 \/ InnerCalls[p - 1].op # "next"
  THEN ToNum(scfg.base)
  ELSE InnerCalls[p - 1].d

\* C27: for DecorrelatedJitterBackoff(base, cap) with valid integer
\* parameters and any random values, after any sequence of
\* nextBackoff/resetBackoff calls every returned delay d satisfies
\* base <= d <= cap and d <= 3 * p, p being the previously returned delay
\* (the base right after construction or reset), and the stored previous
\* delay always equals the last returned delay.
C27_DecorrelatedBounds ==
  \A p \in 1..Len(InnerCalls) :
    (IsNextOf("decorrelatedJitter", p) /\ scfg.capped) =>
      LET d == InnerCalls[p].d
          prev == PreviouslyReturned(p)
      IN /\ IsLimbs(d) /\ d[1] = 0
         /\ IsLimbs(prev) /\ prev[1] = 0
         /\ scfg.base <= d[2]
         /\ d[2] <= scfg.cap
         /\ d[2] <= 3 * prev[2]
         /\ InnerAfter(p).previousDelay = d[2]

\* base 100, cap 500, r = 3/4 twice (250, then 587 cut to the cap), a reset,
\* then r = 0 (the base)
C27_Witness ==
  /\ ~scfg.wrapped
  /\ scfg.kind = "decorrelatedJitter"
  /\ scfg.base = 100
  /\ scfg.capped
  /\ Len(scalls) = 4
  /\ [i \in 1..4 |-> scalls[i].op] = << "next", "next", "reset", "next" >>
  /\ DelaysOf(scalls) = << ToNum(250), ToNum(500), NaN, ToNum(100) >>

\* ============================================================ constructors
\* The numbers a caller can pass to a constructor.  A finite number is held
\* as a count of halves (h = 1 is 0.5, h = 200 is 100); 2^53 stands for the
\* integers that are not safe integers.
\* how many uses the strategy handed to upto() may already have had
MaxGivenUse == 2

JsNaN == [k |-> "NaN"]
JsNum(h) == [k |-> "num", h |-> h]
JsTwoTo53 == [k |-> "2^53"]
JsInfinity == [k |-> "Infinity"]
JsMinusInfinity == [k |-> "-Infinity"]

\* -100, -0.5, 0, 0.5, 3, 100, 500
Halves == {-200, -1, 0, 1, 6, 200, 1000}

JsNumbers ==
  {JsNaN, JsMinusInfinity, JsTwoTo53, JsInfinity} \cup { JsNum(h) : h \in Halves }

\* Number.isNaN(x)
NumberIsNaN(x) == x.k = "NaN"

\* position of a number that is not NaN on the number line, in halves; the
\* three values beyond the finite ones keep their order
Beyond == 2000
Position(x) ==
  CASE x.k = "num" -> x.h
    [] x.k = "2^53" -> Beyond
    [] x.k = "Infinity" -> Beyond + 1
    [] x.k = "-Infinity" -> 0 - Beyond

\* x < y: false when either side is NaN
JsLt(x, y) == ~NumberIsNaN(x) /\ ~NumberIsNaN(y) /\ Position(x) < Position(y)

\* Number.isInteger(x)
NumberIsInteger(x) == (x.k = "num" /\ x.h % 2 = 0) \/ x.k = "2^53"

\* Number.isSafeInteger(x)
NumberIsSafeInteger(x) == x.k = "num" /\ x.h % 2 = 0

\* what a constructor call produces
Thrown(class, args) ==
  [class |-> class, args |-> args, outcome |-> "RangeError"]
Instance(class, args, fields) ==
  [class |-> class, args |-> args, outcome |-> "instance", fields |-> fields]

\* the checks shared by ExponentialBackoff, FibonacciBackoff,
\* FullJitterBackoff, EqualJitterBackoff and DecorrelatedJitterBackoff
\* without the Number.isNaN(cap) test
BaseCapInvalidNoCapNaN(base, cap) ==
  \/ NumberIsNaN(base)
  \/ JsLt(base, JsNum(0))
  \/ JsLt(cap, base)

\*   Number.isNaN(base) -> throw; base < 0 -> throw;
\*   Number.isNaN(cap) -> throw; cap < base -> throw
BaseCapInvalid(base, cap) ==
  \/ NumberIsNaN(base)
  \/ JsLt(base, JsNum(0))
  \/ NumberIsNaN(cap)
  \/ JsLt(cap, base)

\* new ConstantBackoff(delay): one version of the class tests
\* Number.isNaN(delay), another !Number.isSafeInteger(delay); then delay < 0
ConstantBackoffCtor(delay, safeInteger) ==
  IF \/ (IF safeInteger THEN ~NumberIsSafeInteger(delay) ELSE NumberIsNaN(delay))
     \/ JsLt(delay, JsNum(0))
  THEN Thrown("ConstantBackoff", <<delay>>)
  ELSE Instance("ConstantBackoff", <<delay>>, [delay |-> delay])

\* new LinearBackoff(increment, initialDelay, cap)
LinearBackoffCtor(increment, initialDelay, cap) ==
  IF \/ ~NumberIsSafeInteger(increment)
     \/ JsLt(increment, JsNum(0))
     \/ ~NumberIsSafeInteger(initialDelay)
     \/ JsLt(initialDelay, JsNum(0))
     \/ ~NumberIsSafeInteger(cap)
     \/ JsLt(cap, initialDelay)
  THEN Thrown("LinearBackoff", <<increment, initialDelay, cap>>)
  ELSE Instance("LinearBackoff", <<increment, initialDelay, cap>>,
                [ initialDelay |-> initialDelay, increment |-> increment,
                  cap |-> cap, attemptCount |-> 0 ])

\* new ExponentialBackoff(base, cap), new FullJitterBackoff(base, cap),
\* new EqualJitterBackoff(base, cap): fields base, cap, attemptCount = 0
AttemptCountCtor(class, base, cap) ==
  IF BaseCapInvalid(base, cap)
  THEN Thrown(class, <<base, cap>>)
  ELSE Instance(class, <<base, cap>>,
                [base |-> base, cap |-> cap, attemptCount |-> 0])

\* new FibonacciBackoff(base, cap)
FibonacciBackoffCtor(base, cap) ==
  IF BaseCapInvalid(base, cap)
  THEN Thrown("FibonacciBackoff", <<base, cap>>)
  ELSE Instance("FibonacciBackoff", <<base, cap>>,
                [ base |-> base, cap |-> cap,
                  previousDelay |-> JsNum(0), currentDelay |-> base ])

\* new DecorrelatedJitterBackoff(base, cap)
DecorrelatedJitterBackoffCtor(base, cap) ==
  IF BaseCapInvalid(base, cap)
  THEN Thrown("DecorrelatedJitterBackoff", <<base, cap>>)
  ELSE Instance("DecorrelatedJitterBackoff", <<base, cap>>,
                [base |-> base, cap |-> cap, previousDelay |-> base])

\* new UptoBackoff(retries, strategy) testing Number.isSafeInteger
UptoBackoffCtorSafeInteger(retries, strategy) ==
  [ made |->
      IF \/ NumberIsNaN(retries)
         \/ ~NumberIsSafeInteger(retries)
         \/ JsLt(retries, JsNum(0))
      THEN Thrown("UptoBackoff", <<retries, strategy>>)
      ELSE Instance("UptoBackoff", <<retries, strategy>>,
                    [attemptsLeft |-> retries, retries |-> retries]),
    strategy |-> strategy ]

\* new UptoBackoff(retries, strategy) / upto(retries, strategy):
\*   Number.isNaN(retries) -> throw; !Number.isInteger(retries) -> throw;
\*   retries < 0 -> throw; no method of the strategy is called
UptoBackoffCtor(retries, strategy) ==
  [ made |->
      IF \/ NumberIsNaN(retries)
         \/ ~NumberIsInteger(retries)
         \/ JsLt(retries, JsNum(0))
      THEN Thrown("UptoBackoff", <<retries, strategy>>)
      ELSE Instance("UptoBackoff", <<retries, strategy>>,
                    [attemptsLeft |-> retries, retries |-> retries]),
    strategy |-> strategy ]

\* the strategy handed to upto() has been used any number of times before
NewInit ==
  /\ made = NoCall
  /\ given \in { [attemptCount |-> k, calls |-> <<>>] : k \in 0..MaxGivenUse }

NewSpecInit == RetryIdle /\ StratIdle /\ WaitIdle /\ NewInit /\ PairIdle

NewConstantBackoff ==
  /\ made = NoCall
  /\ \E delay \in JsNumbers, safeInteger \in BOOLEAN :
       made' = ConstantBackoffCtor(delay, safeInteger)
  /\ UNCHANGED <<given, retryVars, stratVars, waitVars, pairVars>>

NewLinearBackoff ==
  /\ made = NoCall
  /\ \E increment \in JsNumbers, initialDelay \in JsNumbers, cap \in JsNumbers :
       made' = LinearBackoffCtor(increment, initialDelay, cap)
  /\ UNCHANGED <<given, retryVars, stratVars, waitVars, pairVars>>

NewAttemptCountBackoff ==
  /\ made = NoCall
  /\ \E class \in {"ExponentialBackoff", "FullJitterBackoff", "EqualJitterBackoff"},
        base \in JsNumbers, cap \in JsNumbers :
       made' = AttemptCountCtor(class, base, cap)
  /\ UNCHANGED <<given, retryVars, stratVars, waitVars, pairVars>>

NewFibonacciBackoff ==
  /\ made = NoCall
  /\ \E base \in JsNumbers, cap \in JsNumbers :
       made' = FibonacciBackoffCtor(base, cap)
  /\ UNCHANGED <<given, retryVars, stratVars, waitVars, pairVars>>

NewDecorrelatedJitterBackoff ==
  /\ made = NoCall
  /\ \E base \in JsNumbers, cap \in JsNumbers :
       made' = DecorrelatedJitterBackoffCtor(base, cap)
  /\ UNCHANGED <<given, retryVars, stratVars, waitVars, pairVars>>

NewUptoBackoff ==
  /\ made = NoCall
  /\ \E retries \in JsNumbers :
       LET n == UptoBackoffCtor(retries, given)
       IN /\ made' = n.made
          /\ given' = n.strategy
  /\ UNCHANGED <<retryVars, stratVars, waitVars, pairVars>>

NewNext ==
  \/ NewConstantBackoff
  \/ NewLinearBackoff
  \/ NewAttemptCountBackoff
  \/ NewFibonacciBackoff
  \/ NewDecorrelatedJitterBackoff
  \/ NewUptoBackoff

NewSpec == NewSpecInit /\ [][NewNext]_vars

\* ----------------------------------------------------------------- C28
\* the strategies that take numeric parameters
StrategyClasses ==
  { "ConstantBackoff", "LinearBackoff", "ExponentialBackoff",
    "FibonacciBackoff", "FullJitterBackoff", "EqualJitterBackoff",
    "DecorrelatedJitterBackoff" }

ArgsOf(m) == { m.args[i] : i \in 1..Len(m.args) }

\* the delay / increment / base arguments, and the (base, cap) pair
NonCapArgsOf(m) ==
  IF m.class = "LinearBackoff" THEN {m.args[1], m.args[2]} ELSE {m.args[1]}
HasCapArg(m) == m.class # "ConstantBackoff"
BaseArgOf(m) == IF m.class = "LinearBackoff" THEN m.args[2] ELSE m.args[1]
CapArgOf(m) == IF m.class = "LinearBackoff" THEN m.args[3] ELSE m.args[2]

FieldsOf(m) == { m.fields[f] : f \in DOMAIN m.fields \ {"attemptCount"} }

\* C28: constructing any strategy that takes numeric parameters with a NaN
\* parameter, a negative delay/base/increment, or a cap below base (below
\* initialDelay for Linear) fails with a RangeError and yields no instance;
\* so no instance ever holds a NaN or negative parameter or a cap below its
\* base.
C28_InvalidRejected ==
  made.class \in StrategyClasses =>
    /\ ( \/ \E a \in ArgsOf(made) : NumberIsNaN(a)
         \/ \E a \in NonCapArgsOf(made) : JsLt(a, JsNum(0))
         \/ HasCapArg(made) /\ JsLt(CapArgOf(made), BaseArgOf(made)) )
       => /\ made.outcome = "RangeError"
          /\ "fields" \notin DOMAIN made
    /\ made.outcome = "instance" =>
         /\ \A v \in FieldsOf(made) : ~NumberIsNaN(v) /\ ~JsLt(v, JsNum(0))
         /\ HasCapArg(made) =>
              /\ made.fields.cap = CapArgOf(made)
              /\ ~JsLt(made.fields.cap, BaseArgOf(made))

\* new LinearBackoff(100, 100, 3): cap below initialDelay
C28_Witness ==
  /\ made.class = "LinearBackoff"
  /\ made.args = << JsNum(200), JsNum(200), JsNum(6) >>
  /\ made.outcome = "RangeError"

\* new FibonacciBackoff(3, NaN)
C28_WitnessNaNCap ==
  /\ made.class = "FibonacciBackoff"
  /\ made.args = << JsNum(6), JsNaN >>
  /\ made.outcome = "RangeError"

\* ----------------------------------------------------------------- C29
\* C29: new UptoBackoff(retries, strategy) fails with a RangeError, creating
\* no decorator and never touching the inner strategy, when retries is NaN,
\* non-integer (fractional or infinite) or negative; it succeeds for every
\* integer retries >= 0.
C29_UptoValidation ==
  made.class = "UptoBackoff" =>
    LET retries == made.args[1]
        integer == retries.k = "2^53" \/ (retries.k = "num" /\ retries.h % 2 = 0)
        negative == retries.k = "-Infinity" \/ (retries.k = "num" /\ retries.h < 0)
    IN /\ (retries.k = "NaN" \/ ~integer \/ negative) =>
            /\ made.outcome = "RangeError"
            /\ "fields" \notin DOMAIN made
            /\ given = made.args[2]
            /\ given.calls = <<>>
       /\ (integer /\ ~negative) =>
            /\ made.outcome = "instance"
            /\ made.fields.attemptsLeft = retries
            /\ made.fields.retries = retries

\* upto(0.5, strategy) on a strategy that has been used
C29_Witness ==
  /\ made.class = "UptoBackoff"
  /\ made.args[1] = JsNum(1)
  /\ made.outcome = "RangeError"
  /\ given.attemptCount > 0
  /\ given = made.args[2]

\* upto(2^53, strategy): an integer that is not a safe integer
C29_WitnessLargeInteger ==
  /\ made.class = "UptoBackoff"
  /\ made.args[1] = JsTwoTo53
  /\ made.outcome = "instance"

\* ----------------------------------------------------------------- C30
\* C30: constructing FibonacciBackoff with a non-integer base or cap (a
\* fractional value such as 0.5, or an infinite value) fails with a
\* RangeError, as it does for NaN.
C30_FibonacciRejectsNonIntegers ==
  ( /\ made.class = "FibonacciBackoff"
    /\ ~NumberIsInteger(made.args[1]) \/ ~NumberIsInteger(made.args[2]) )
  => made.outcome = "RangeError"

\* the part of C30 that holds: NaN is rejected
C30_FibonacciRejectsNaN ==
  ( /\ made.class = "FibonacciBackoff"
    /\ NumberIsNaN(made.args[1]) \/ NumberIsNaN(made.args[2]) )
  => made.outcome = "RangeError"

\* ======================================================= the endless loop
\* retry(fn, {strategy: constant(delay), stop, signal}): a strategy that
\* never returns NaN.  The loop has no bound of its own; the model follows
\* it for MaxLoopCalls invocations of the operation.
MaxLoopCalls == 4

\* the catch block when the strategy is a ConstantBackoff
LoopCatch(i, tr, stopRet, tm, ls) ==
  LET delay == ConstantNext
      tr1 == Append(tr, EvNext(delay))
      tr2 == Append(tr1, EvStop(i, attempt, stopRet))
  IN /\ UNCHANGED attemptsLeft
     /\ IF IsNaN(delay)
        THEN /\ Finish(Rejected(OpError(i)), tr1)
             /\ timer' = tm
             /\ listeners' = ls
             /\ UNCHANGED attempt
        ELSE IF opts.hasStop
        THEN /\ attempt' = attempt + 1
             /\ IF stopRet
                THEN /\ Finish(Rejected(OpError(i)), tr2)
                     /\ timer' = tm
                     /\ listeners' = ls
                ELSE WaitFor(delay, tr2, tm, ls)
        ELSE /\ UNCHANGED attempt
             /\ WaitFor(delay, tr1, tm, ls)

\* one pass of `try { return fn(); } catch (error) { ... }`
LoopAttempt(tr, stopRet, tm, ls) ==
  LET i == fnCalls + 1
      tr0 == Append(tr, EvFn(i))
  IN /\ fnCalls' = i
     /\ CASE fn[i] = "return" ->
               /\ Finish(Resolved(OpValue(i)), tr0)
               /\ timer' = tm
               /\ listeners' = ls
               /\ UNCHANGED <<attempt, attemptsLeft>>
          [] fn[i] = "throw" -> LoopCatch(i, tr0, stopRet, tm, ls)
          [] OTHER ->
               /\ pc' = "inflight"
               /\ trace' = tr0
               /\ timer' = tm
               /\ listeners' = ls
               /\ UNCHANGED <<attempt, attemptsLeft, outcome>>

LoopInit ==
  /\ opts \in [ retries : {0}, delay : Delays,
                hasStop : BOOLEAN, hasSignal : BOOLEAN ]
  /\ fn \in [1..MaxLoopCalls -> FnKinds]
  /\ attemptsLeft = 0
  /\ pc = "idle"
  /\ attempt = 0
  /\ fnCalls = 0
  /\ aborted = FALSE
  /\ timer = "none"
  /\ listeners = 0
  /\ outcome = Pending
  /\ trace = <<>>

LoopSpecInit == LoopInit /\ StratIdle /\ WaitIdle /\ NewIdle /\ PairIdle

\* retry(fn, {strategy: constant(delay), ...}) up to its first suspension
LoopRetryCall ==
  /\ pc = "idle"
  /\ \E stopRet \in BOOLEAN :
       LoopAttempt(Append(trace, EvReset), stopRet, timer, listeners)
  /\ UNCHANGED <<stratVars, waitVars, newVars, pairVars>>
  /\ UNCHANGED <<opts, fn, aborted>>

\* the timer callback of waitFor, and the loop resumed by it
LoopTimerFire ==
  /\ pc = "waiting"
  /\ timer = "pending"
  /\ fnCalls < MaxLoopCalls
  /\ \E stopRet \in BOOLEAN :
       LoopAttempt(Append(trace, EvFire), stopRet, "fired",
                   IF opts.hasSignal THEN listeners - 1 ELSE listeners)
  /\ UNCHANGED <<stratVars, waitVars, newVars, pairVars>>
  /\ UNCHANGED <<opts, fn, aborted>>

LoopNext ==
  \/ LoopRetryCall
  \/ FnSettle
  \/ LoopTimerFire
  \/ Abort

LoopSpec == LoopSpecInit /\ [][LoopNext]_vars

\* retry is called, and each invocation and each timer completes
LoopLiveSpec ==
  LoopSpec /\ WF_vars(LoopRetryCall) /\ WF_vars(FnSettle) /\ WF_vars(LoopTimerFire)

\* ----------------------------------------------------------------- C31
AlwaysFails == \A i \in DOMAIN fn : Fails(i)
AlwaysThrows == \A i \in DOMAIN fn : fn[i] = "throw"

\* C31: with an operation that fails on every invocation, a strategy that
\* never returns NaN and only returns delays not above 2^31 - 1, no stop
\* predicate and no cancellation, retry never terminates: when timers are
\* scheduled fairly the operation is invoked again and again (here: as
\* often as the model follows the loop).
C31_RunsForever ==
  (AlwaysFails /\ DelayFits /\ ~opts.hasStop /\ ~opts.hasSignal) =>
    ([](pc # "done") /\ <>(fnCalls = MaxLoopCalls))

\* the part of C31 that holds: the same for an operation whose failures are
\* all thrown synchronously
C31_ThrowingRunsForever ==
  (AlwaysThrows /\ DelayFits /\ ~opts.hasStop /\ ~opts.hasSignal) =>
    ([](pc # "done") /\ <>(fnCalls = MaxLoopCalls))

\* ----------------------------------------------------------------- C32
\* timers started and neither fired nor cleared
PendingTimers ==
  CountKind(trace, "timer") - CountKind(trace, "fire") - CountKind(trace, "clear")

\* invocations whose promise has not settled
InFlight ==
  Cardinality({ p \in Positions(trace, "fn") : fn[trace[p].i] \in {"resolve", "reject"} })
    - CountKind(trace, "settle")

\* the invocation and the events of the catch block that precede position q
\* are those of a failed invocation that has completed
AfterFailedInvocation(q) ==
  \E p \in Positions(trace, "fn") :
    /\ p < q
    /\ fn[trace[p].i] = "throw"
    /\ \A x \in (p + 1)..(q - 1) : trace[x].kind \in {"next", "stop", "abort"}

\* C32: within one retry sequence there is at every moment at most one
\* invocation in flight and at most one pending timer, never both; an
\* invocation after the first starts only when the previous wait has
\* resolved, and a wait starts only after the previous invocation failed.
C32_SingleFlow ==
  /\ PendingTimers \in {0, 1}
  /\ InFlight \in {0, 1}
  /\ PendingTimers + InFlight <= 1
  /\ (timer = "pending") <=> (PendingTimers = 1)
  /\ (pc = "inflight") <=> (InFlight = 1)
  /\ \A p \in Positions(trace, "fn") :
       trace[p].i > 1 => trace[p - 1].kind = "fire"
  /\ \A q \in Positions(trace, "timer") : AfterFailedInvocation(q)

\* two waits have resolved and the third invocation is in flight
C32_Witness ==
  /\ CountKind(trace, "fire") = 2
  /\ pc = "inflight"
  /\ fnCalls = 3

\* ================================================ two concurrent sequences
\* Two calls of retry(fn, {strategy}) running at the same time, each with
\* its own upto(n, exponential(b, c)); no stop predicate, no signal.
MaxPairRetries == 2
MaxPairCalls == MaxPairRetries + 1
PairRetries == {0, MaxPairRetries}
PairBases == {3, 100}
PairFnKinds == {"return", "throw", "reject"}
Sequences2 == {1, 2}

\* the operations: an invocation that does not throw ends the loop, so what
\* the later ones would do is never seen and is fixed to "return"
PairFns ==
  { f \in [1..MaxPairCalls -> PairFnKinds] :
      \A i \in 2..MaxPairCalls : f[i - 1] # "throw" => f[i] = "return" }

PairConfig(b, n) ==
  [ kind |-> "exponential", base |-> b, incr |-> 0, capped |-> TRUE,
    cap |-> 500, wrapped |-> TRUE, retries |-> n ]

\* both sequences handed the same strategy instance
StrategyOfShared(s) == 1

\* the strategy instance sequence s was given: its own
StrategyOf(s) == s

PairSeq(pcv, n, ds, out) == [pc |-> pcv, fnCalls |-> n, delays |-> ds, outcome |-> out]

\* one pass of `try { return fn(); } catch (error) { ... }` of sequence s,
\* on the strategy instances inst; gives the sequence and the instances after
PairAttempt(s, inst) ==
  LET k == StrategyOf(s)
      q == pseq[s]
      i == q.fnCalls + 1
  IN CASE pcfg[s].fn[i] = "return" ->
            [seq |-> PairSeq("done", i, q.delays, Resolved(OpValue(i))), inst |-> inst]
       [] pcfg[s].fn[i] = "throw" ->
            LET r == UptoBackoffNext(pcfg[k].c, inst[k], 0)
                ds == Append(q.delays, r.delay)
                inst1 == [inst EXCEPT ![k] = r.obj]
            IN IF IsNaN(r.delay)
               THEN [seq |-> PairSeq("done", i, ds, Rejected(OpError(i))), inst |-> inst1]
               ELSE IF NumGt(r.delay, Num(0, INT32_MAX))
               THEN [seq |-> PairSeq("done", i, ds, Rejected(RangeErr)), inst |-> inst1]
               ELSE [seq |-> PairSeq("waiting", i, ds, Pending), inst |-> inst1]
       [] OTHER ->
            [seq |-> PairSeq("inflight", i, q.delays, Pending), inst |-> inst]

PairInit ==
  /\ pcfg \in [ Sequences2 -> [ fn : PairFns,
                                c : { PairConfig(b, n) : b \in PairBases, n \in PairRetries } ] ]
  /\ pseq = [s \in Sequences2 |-> PairSeq("idle", 0, <<>>, Pending)]
  /\ pinst = [k \in Sequences2 |-> UptoBackoffNew(pcfg[k].c)]
  /\ porder = <<>>

PairSpecInit == RetryIdle /\ StratIdle /\ WaitIdle /\ NewIdle /\ PairInit

\* sequence s: retry() is called: strategy.resetBackoff(), first invocation
PairRetryCall ==
  \E s \in Sequences2 :
    /\ pseq[s].pc = "idle"
    /\ LET k == StrategyOf(s)
           n == PairAttempt(s, [pinst EXCEPT ![k] = UptoBackoffReset(pcfg[k].c, pinst[k])])
       IN /\ pseq' = [pseq EXCEPT ![s] = n.seq]
          /\ pinst' = n.inst
    /\ porder' = Append(porder, s)
    /\ UNCHANGED <<pcfg, retryVars, stratVars, waitVars, newVars>>

\* sequence s: the timer of its wait fires and its loop goes on
PairTimerFire ==
  \E s \in Sequences2 :
    /\ pseq[s].pc = "waiting"
    /\ LET n == PairAttempt(s, pinst)
       IN /\ pseq' = [pseq EXCEPT ![s] = n.seq]
          /\ pinst' = n.inst
    /\ porder' = Append(porder, s)
    /\ UNCHANGED <<pcfg, retryVars, stratVars, waitVars, newVars>>

\* sequence s: the promise its invocation returned rejects
PairFnSettle ==
  \E s \in Sequences2 :
    /\ pseq[s].pc = "inflight"
    /\ pseq' = [pseq EXCEPT ![s] =
                  PairSeq("done", @.fnCalls, @.delays, Rejected(OpError(@.fnCalls)))]
    /\ porder' = Append(porder, s)
    /\ UNCHANGED <<pcfg, pinst, retryVars, stratVars, waitVars, newVars>>

PairNext ==
  \/ PairRetryCall
  \/ PairTimerFire
  \/ PairFnSettle

PairSpec == PairSpecInit /\ [][PairNext]_vars

\* ----------------------------------------------------------------- C33
\* the whole run of one sequence on its own: from invocation i on, with
\* strategy fields o and the delays ds seen so far
RECURSIVE Solo(_, _, _, _, _)
Solo(c, f, o, i, ds) ==
  CASE f[i] = "return" -> PairSeq("done", i, ds, Resolved(OpValue(i)))
    [] f[i] = "reject" -> PairSeq("done", i, ds, Rejected(OpError(i)))
    [] OTHER ->
         LET r == UptoBackoffNext(c, o, 0)
         IN IF IsNaN(r.delay)
            THEN PairSeq("done", i, Append(ds, r.delay), Rejected(OpError(i)))
            ELSE Solo(c, f, r.obj, i + 1, Append(ds, r.delay))

RunAlone(s) ==
  Solo(pcfg[s].c, pcfg[s].fn, UptoBackoffNew(pcfg[s].c), 1, <<>>)

IsPrefix(a, b) == Len(a) <= Len(b) /\ a = SubSeq(b, 1, Len(a))

\* C33: when two retry sequences run concurrently, each with its own
\* strategy instance, then under every interleaving each sequence observes
\* the delays and performs the number of invocations it would when run
\* alone.
C33_Independent ==
  \A s \in DOMAIN pseq :
    /\ IsPrefix(pseq[s].delays, RunAlone(s).delays)
    /\ pseq[s].fnCalls <= RunAlone(s).fnCalls
    /\ pseq[s].pc = "done" => pseq[s] = RunAlone(s)

\* the two sequences took turns, each exhausting its own upto(2, ...)
C33_Witness ==
  /\ porder = <<1, 2, 1, 2, 1, 2>>
  /\ \A s \in Sequences2 :
       /\ pseq[s].pc = "done"
       /\ pseq[s].fnCalls = MaxPairCalls
       /\ Len(pseq[s].delays) = MaxPairCalls
  /\ pcfg[1].c.base # pcfg[2].c.base

\* ----------------------------------------------------------------- C34
\* position of the i-th invocation in the trace
FnPos(i) == CHOOSE p \in Positions(trace, "fn") : trace[p].i = i

\* what follows the i-th invocation, a failed one: nextBackoff() first; on
\* NaN nothing more of the loop; otherwise the stop predicate (if any), and
\* when it returns true no timer, the strategy being one step further
ConsultsStrategyFirst(i) ==
  LET q == FnPos(i) + 1
  IN /\ q <= Len(trace)
     /\ trace[q].kind = "next"
     /\ IsNaN(trace[q].d) =>
          /\ NoneAfter(q, {"stop", "next", "fn", "timer"})
          /\ outcome = Rejected(OpError(i))
     /\ (~IsNaN(trace[q].d) /\ opts.hasStop) =>
          /\ q + 1 <= Len(trace)
          /\ trace[q + 1].kind = "stop"
          /\ trace[q + 1].i = i
          /\ trace[q + 1].ret =>
               /\ NoneAfter(q + 1, {"timer", "next", "fn"})
               /\ outcome = Rejected(OpError(i))
               /\ attemptsLeft = opts.retries - NextCalls
     /\ ~opts.hasStop => NoneAfter(0, {"stop"})

\* C34: on every failure retry consults strategy.nextBackoff() before the
\* stop predicate; if the strategy returns NaN the predicate is not invoked
\* for that failure and the strategy is not asked again; if the predicate
\* returns true the delay is discarded, the strategy having advanced by one
\* step.
C34_StrategyBeforePredicate ==
  \A i \in 1..fnCalls : (Fails(i) /\ Completed(i)) => ConsultsStrategyFirst(i)

\* the part of C34 that holds: the same for every failure thrown
\* synchronously
C34_StrategyBeforePredicateOnThrow ==
  \A i \in 1..fnCalls : fn[i] = "throw" => ConsultsStrategyFirst(i)

\* ----------------------------------------------------------------- C35
\* invocations that have failed
FailedCount == Cardinality({ i \in 1..fnCalls : Fails(i) /\ Completed(i) })

\* the sequence has ended in failure by the strategy's NaN, the stop
\* predicate, the signal or the RangeError of waitFor
EndedByLoop ==
  /\ pc = "done"
  /\ \/ StrategyStopped
     \/ PredicateStopped
     \/ outcome = Rejected(AbortReason)
     \/ outcome = Rejected(RangeErr)

\* C35: in every reachable state of a retry sequence the number of
\* strategy.nextBackoff() calls is at most the number of failed invocations
\* and at least that number minus one; when the sequence has terminated in
\* failure by strategy stop, stop predicate, cancellation or range error the
\* two are equal; the stop predicate is never called more often than
\* nextBackoff().
C35_CallCounts ==
  /\ NextCalls <= FailedCount
  /\ NextCalls >= FailedCount - 1
  /\ EndedByLoop => NextCalls = FailedCount
  /\ CountKind(trace, "stop") <= NextCalls

\* two failures, two nextBackoff() and two stop() calls, then the abort
C35_Witness ==
  /\ pc = "done"
  /\ outcome = Rejected(AbortReason)
  /\ FailedCount = 2
  /\ NextCalls = 2
  /\ CountKind(trace, "stop") = 2

\* a failed invocation for which nextBackoff() was never called: the
\* rejected promise that ends the sequence
C35_WitnessOneLess ==
  /\ pc = "done"
  /\ FailedCount = 2
  /\ NextCalls = 1

\* ----------------------------------------------------------------- C36
\* C36: for UptoBackoff, after any sequence of nextBackoff/resetBackoff
\* calls the remaining-attempts counter never exceeds the configured
\* retries; every nextBackoff() call lowers it by exactly one, also after
\* exhaustion (so it may become negative); the inner nextBackoff() calls
\* delegated since the last reset or construction never number more than
\* retries; and a call delegates exactly when the counter was greater than
\* zero before it.
C36_UptoCounter ==
  scfg.wrapped =>
    /\ sobj.attemptsLeft <= scfg.retries
    /\ \A p \in 1..Len(scalls) :
         /\ scalls[p].after.attemptsLeft <= scfg.retries
         /\ Len(InnerNexts(LastUptoReset(p + 1), p)) <= scfg.retries
    /\ \A p \in SCalls("upto", "next") :
         /\ scalls[p].after.attemptsLeft = UptoBefore(p).attemptsLeft - 1
         /\ scalls[p].delegated <=> UptoBefore(p).attemptsLeft > 0
         /\ scalls[p].delegated <=> (p > 1 /\ IsInnerNext(scalls[p - 1]))

\* retries = 1: one delegated call, two more after exhaustion that leave
\* the counter at -2, a reset, and a delegated call again
C36_Witness ==
  /\ scfg.wrapped
  /\ scfg.retries = 1
  /\ \E p \in SCalls("upto", "next") :
       /\ ~scalls[p].delegated
       /\ UptoBefore(p).attemptsLeft = -1
       /\ scalls[p].after.attemptsLeft = -2
       /\ Len(InnerNexts(0, p)) = 1
       /\ \E q \in SCalls("upto", "next") :
            /\ q > p
            /\ scalls[q].delegated
            /\ scalls[q].after.attemptsLeft = 0

\* ----------------------------------------------------------------- C37
\* the event loop runs every timer that is due
WaitLiveSpec == WaitSpec /\ WF_vars(WaitTimerFire)

\* the w-th waitFor call was made with a delay that passes the range check
WStarted(w) == w <= Len(waits) /\ ~WTooLong(w)

WSettled(w) == waits[w].status \in {"resolved", "rejected"}

\* resolve() and reject() calls of the w-th wait
WSettlements(w) == Cardinality(WPos("resolve", w)) + Cardinality(WPos("reject", w))

\* the w-th wait is pending with no settlement, or settled by exactly one
\* resolve() or reject() call, the one its state shows
WSettledOnce(w) ==
  /\ waits[w].status \in {"pending", "resolved", "rejected"}
  /\ WSettlements(w) = (IF WSettled(w) THEN 1 ELSE 0)
  /\ waits[w].status = "resolved" <=> WPos("resolve", w) # {}
  /\ waits[w].status = "rejected" <=> WPos("reject", w) # {}
  /\ waits[w].status = "rejected" => waits[w].err = AbortReason
  /\ (WPos("fire", w) # {} /\ WPos("abort", 0) = {}) => waits[w].status = "resolved"

\* a settled wait stays as it is
WStaysSettled ==
  \A w \in 1..Len(waits) :
    (WStarted(w) /\ WSettled(w)) => waits'[w] = waits[w]

\* the signal given to the w-th wait has been aborted
WSignalAborted(w) == waits[w].withSignal /\ wsignal.aborted

\* the w-th wait is settled: resolved, or rejected with the signal aborted
WResolvedUnlessAborted(w) ==
  /\ WStarted(w)
  /\ \/ waits[w].status = "resolved"
     \/ waits[w].status = "rejected" /\ WSignalAborted(w)

\* C37: every waitFor call with delay <= 2^31 - 1 settles exactly once under
\* every interleaving of the timer firing and the abort event: it resolves
\* or rejects, never both and never twice, and if no abort occurs it
\* eventually resolves, once the timer fires.
C37_SettlesExactlyOnce ==
  /\ [](\A w \in 1..Len(waits) : WStarted(w) => WSettledOnce(w))
  /\ [][WStaysSettled]_vars
  /\ \A w \in 1..MaxWaits : [](WStarted(w) => <>WResolvedUnlessAborted(w))

\* two waits on the signal and one without: the first resolved by its
\* timer, the second rejected by the abort that followed, the third
\* resolved after the abort
C37_Witness ==
  /\ Len(waits) = 3
  /\ \A w \in 1..3 : WStarted(w) /\ WSettlements(w) = 1
  /\ waits[1].withSignal /\ waits[1].status = "resolved"
  /\ waits[2].withSignal /\ waits[2].status = "rejected"
  /\ ~waits[3].withSignal /\ waits[3].status = "resolved"
  /\ \E a \in WPos("abort", 0), f \in WPos("fire", 1), g \in WPos("fire", 3) :
       f < a /\ a < g /\ WCall(2) < f

\* ----------------------------------------------------------------- C38
\* what retry settles with when the i-th invocation is its last word
InvocationResult(i) ==
  IF Succeeds(i) THEN Resolved(OpValue(i)) ELSE Rejected(OpError(i))

\* the abort at position p came when the sequence had already ended
AbortedAfterEnd(p) == p = Len(trace) /\ pc = "done"

C38_WitnessInFlight ==
  /\ pc = "done"
  /\ fnCalls = 3
  /\ outcome = Resolved(OpValue(3))
  /\ \E p \in Positions(trace, "abort") : p = Nth("fn", 3) + 1

====
